---- MODULE Spec2Model ----
(***************************************************************************)
(* Municipality reporter: the report / voting backend.                     *)
(*                                                                         *)
(* Two implementations of voting live in the repository and both are       *)
(* modelled here:                                                          *)
(*   - the Cloud Function voteReport over Firestore (README.md 312-390),   *)
(*     a sequence of awaited reads and writes, one action per await;       *)
(*   - the in-memory mock voteReport of the mobile app (reports.ts         *)
(*     133-156), which runs to completion without yielding.                *)
(* Also modelled: the mock authentication (auth.ts), creating reports and   *)
(* updating their status in the mock service, the security rules of the    *)
(* 'users' and 'reports' collections (storage.rules), and the Cloud        *)
(* Functions savePushToken, notifyOnStatusChange and deleteAccountData     *)
(* (README.md 392-521), again one action per await, with backend calls     *)
(* that may fail.                                                          *)
(* The urgency score (README.md 303-306 and 377-380) is a real number; it  *)
(* is kept exactly, as the pair (tenths, logArg) that denotes              *)
(*            tenths / 10 + 20 * log10(logArg).                            *)
(***************************************************************************)
EXTENDS Integers, Sequences, FiniteSets, TLC

VARIABLES
    now,          \* server / function clock, in milliseconds
    reports,      \* Firestore collection 'reports': id -> document
    userVotes,    \* Firestore collection 'userVotes': uid -> lastVoteTime
    calls,        \* invocations of the Cloud Function voteReport
    mockReports,  \* reports.ts: const mockReports: Report[]
    mockVotes,    \* reports.ts: const mockVotes = new Map<string, Set<string>>()
    mockResult,   \* outcome of the last call of the mock service
    snap,         \* the document snapshot handed to computeUrgency (onCreate)
    mockUsers,    \* auth.ts: const mockUsers = new Map<string, UserProfile>()
    currentUser,  \* auth.ts: let currentUser: UserProfile | null
    users,        \* Firestore collection 'users': uid -> document
    identities,   \* Firebase Auth: the uids that can authenticate
    storage,      \* Cloud Storage: the stored objects, as (directory, file name)
    events,       \* update events of 'reports' not yet handed to notifyOnStatusChange
    notify,       \* the running invocation of notifyOnStatusChange
    del,          \* the invocation of deleteAccountData
    probe,        \* what the latest voteReport call found, threw and returned
    authListeners,\* auth.ts: let authListeners: ((user) => void)[]
    round,        \* the listener callbacks: the running loop and who was called
    page          \* the tennis predictor page: requests in flight and the DOM

cfVars == <<now, reports, userVotes, calls>>
mockVars == <<mockReports, mockVotes, mockResult>>
authVars == <<mockUsers, currentUser>>
backendVars == <<users, identities, storage, events, notify, del>>
otherVars == <<probe, authListeners, round, page>>
vars == <<now, reports, userVotes, calls, mockReports, mockVotes, mockResult, snap,
          mockUsers, currentUser, users, identities, storage, events, notify, del,
          probe, authListeners, round, page>>

----------------------------------------------------------------------------
(* Bounds of the model *)

MaxCalls == 2
MaxTicks == 2
MaxUpvotes == 400
MaxSignUps == 1
MaxCreates == 2
MaxUpdates == 1
MaxDeleteCalls == 2
MaxQueue == 1

\* form submissions and clicks on Save of the predictor page
MaxSubmits == 3
MaxSaves == 1
MaxFailures == 2

(* Program constants *)

RateLimitMs == 60000
ScoreCap == 100
BaseScore == 50

UserIds == {"test-user", "test-admin"}
NoAuth == "<no auth>"
NoReportId == ""
NoTime == -1

\* The clock advances in steps of half the rate-limit window, so that differences
\* of 30 s (inside the window) and of exactly 60 s (its boundary) both occur.
TickMs == RateLimitMs \div 2

----------------------------------------------------------------------------
(* Exact arithmetic on urgency scores *)

RECURSIVE Pow10(_)
Pow10(k) == IF k = 0 THEN 1 ELSE 10 * Pow10(k - 1)

\* the number x
Lit(x) == [tenths |-> 10 * x, logArg |-> 1]
\* a literal with one decimal, given in tenths (7.5 is LitTenths(75))
LitTenths(t) == [tenths |-> t, logArg |-> 1]
\* Math.log10(n) * 20
Log10Times20(n) == [tenths |-> 0, logArg |-> n]
\* a + b : 20*log10(m) + 20*log10(n) = 20*log10(m*n)
ScoreAdd(a, b) == [tenths |-> a.tenths + b.tenths, logArg |-> a.logArg * b.logArg]

\* a = b as real numbers.  a.tenths/10 + 20 log10(a.logArg) = b.tenths/10 +
\* 20 log10(b.logArg) iff b.logArg / a.logArg = 10^((a.tenths - b.tenths)/200),
\* and a rational power of ten is rational only for an integer exponent.
ScoreEq(a, b) ==
    LET d == a.tenths - b.tenths IN
    /\ d % 200 = 0
    /\ IF d >= 0 THEN b.logArg = a.logArg * Pow10(d \div 200)
                 ELSE a.logArg = b.logArg * Pow10((-d) \div 200)

\* a <= b as real numbers, for a.tenths - b.tenths a multiple of 100 (scores
\* that differ by a whole multiple of ten in their literal part):
\* a <= b iff 10^((a.tenths - b.tenths)/100) * a.logArg^2 <= b.logArg^2.
ScoreLeq(a, b) ==
    LET d == a.tenths - b.tenths IN
    IF d >= 0 THEN Pow10(d \div 100) * a.logArg * a.logArg <= b.logArg * b.logArg
              ELSE a.logArg * a.logArg <= Pow10((-d) \div 100) * b.logArg * b.logArg

ScoreLt(a, b) == ~ScoreLeq(b, a)

\* Math.min(a, b)
ScoreMin(a, b) == IF ScoreLeq(a, b) THEN a ELSE b

NoScore == [tenths |-> -1, logArg |-> 0]

\* the score without Math.min(100, ...)
computeUrgencyUncapped(upvotes) ==
    ScoreAdd(Lit(BaseScore), Log10Times20(upvotes + 1))

\* computeUrgency (onCreate trigger): Math.min(100, baseScore + Math.log10(upvotes + 1) * 20)
computeUrgencyScore(upvotes) ==
    ScoreMin(Lit(ScoreCap), ScoreAdd(Lit(BaseScore), Log10Times20(upvotes + 1)))

\* voteReport, "Recompute AI score": the same formula, written out a second time
voteAiScore(newUpvotes) ==
    ScoreMin(Lit(ScoreCap), ScoreAdd(Lit(BaseScore), Log10Times20(newUpvotes + 1)))

----------------------------------------------------------------------------
(* Firestore and the Cloud Function voteReport *)

\* the invocations of a run: as many as the initial state provides
CallIds == DOMAIN calls
MaxTime == MaxTicks * TickMs

\* ids a caller may pass: three stored reports, one id that is not stored
StoredReportIds == {"1", "2", "3"}
ReportIdArgs == StoredReportIds \cup {"9", NoReportId}
AuthArgs == UserIds \cup {NoAuth}

NoData == [exists |-> FALSE, isPublic |-> FALSE, upvotes |-> 0, voters |-> <<>>]

IdleCall ==
    [pc |-> "idle", auth |-> NoAuth, reportId |-> NoReportId, reportData |-> NoData,
     result |-> "none", wrote |-> NoTime, sincePrev |-> NoTime,
     priorOk |-> FALSE, concUser |-> FALSE, concPair |-> FALSE]

\* a test that finds nothing
IncludesNever(arr, x) == FALSE

\* Array.prototype.includes
Includes(arr, x) == \E i \in DOMAIN arr : arr[i] = x

\* the report documents as stored when the function is deployed: no votes yet,
\* aiScore as computeUrgency set it at creation
InitialReport(isPublic, authorId) ==
    [isPublic |-> isPublic, upvotes |-> 0, voters |-> <<>>,
     aiScore |-> computeUrgencyScore(0), authorId |-> authorId,
     status |-> "new"]

InProgress(c) == calls[c].pc \notin {"idle", "done"}
OkCalls == {c \in CallIds : calls[c].pc = "done" /\ calls[c].result = "ok"}

\* time of the caller's latest successful vote so far (NoTime if none)
LastOkVote(uid) ==
    LET ts == {calls[c].wrote : c \in {d \in OkCalls : calls[d].auth = uid}} IN
    IF ts = {} THEN NoTime ELSE CHOOSE t \in ts : \A s \in ts : s <= t

\* milliseconds since the caller's latest successful vote (NoTime if none)
SincePrev(uid) == IF LastOkVote(uid) = NoTime THEN NoTime ELSE now - LastOkVote(uid)

\* return or throw: the call ends and its locals go out of scope
Finish(c, result) ==
    [calls[c] EXCEPT !.pc = "done", !.result = result, !.reportData = NoData]

\* lines 312-326: the checks before the first await, then reportRef.get() is issued
VoteReportInvoke(c, auth, reportId) ==
    /\ calls[c].pc = "idle"
    /\ \A d \in CallIds : d < c => calls[d].pc # "idle"
    /\ Cardinality({d \in CallIds : InProgress(d)}) < MaxCalls
    /\ LET sameUser == {d \in CallIds : InProgress(d) /\ calls[d].auth = auth}
           samePair == {d \in sameUser : calls[d].reportId = reportId}
           started == [calls[c] EXCEPT !.auth = auth, !.reportId = reportId,
                          !.concUser = sameUser # {},
                          !.concPair = samePair # {},
                          !.priorOk = \E d \in OkCalls :
                                          /\ calls[d].auth = auth
                                          /\ calls[d].reportId = reportId]
       IN calls' = [d \in CallIds |->
              IF d = c THEN
                  IF auth = NoAuth
                      THEN [started EXCEPT !.pc = "done", !.result = "unauthenticated"]
                  ELSE IF reportId = NoReportId
                      THEN [started EXCEPT !.pc = "done", !.result = "invalid-argument"]
                  ELSE [started EXCEPT !.pc = "getReport"]
              ELSE [calls[d] EXCEPT !.concUser = @ \/ d \in sameUser,
                                    !.concPair = @ \/ d \in samePair]]
    /\ UNCHANGED <<now, reports, userVotes>>

\* lines 326-349: the report is read; not-found, permission-denied and
\* already-exists are decided on the snapshot; then userVotesRef.get() is issued
VoteReportGetReport(c) ==
    /\ calls[c].pc = "getReport"
    /\ LET id == calls[c].reportId
           exists == id \in DOMAIN reports
           reportData == IF exists
                            THEN [exists |-> TRUE, isPublic |-> reports[id].isPublic,
                                  upvotes |-> reports[id].upvotes,
                                  voters |-> reports[id].voters]
                            ELSE NoData
       IN calls' = [calls EXCEPT ![c] =
              IF ~reportData.exists THEN Finish(c, "not-found")
              ELSE IF ~reportData.isPublic THEN Finish(c, "permission-denied")
              ELSE IF Includes(reportData.voters, calls[c].auth)
                  THEN Finish(c, "already-exists")
              ELSE [calls[c] EXCEPT !.pc = "getUserVotes", !.reportData = reportData]]
    /\ UNCHANGED <<now, reports, userVotes>>

\* the window check with <= for <: a vote exactly 60 s later is still rejected
RateLimitedInclusive(lastVoteTime, nowTime) ==
    lastVoteTime # NoTime /\ nowTime - lastVoteTime <= RateLimitMs

\* line 356: lastVoteTime && (now.getTime() - lastVoteTime.getTime()) < 60000
RateLimited(lastVoteTime, nowTime) ==
    lastVoteTime # NoTime /\ nowTime - lastVoteTime < RateLimitMs

\* lines 349-365: the rate-limit record is read and checked against the clock;
\* the caller is pushed onto the voters read earlier; reportRef.update is issued
VoteReportGetUserVotes(c) ==
    /\ calls[c].pc = "getUserVotes"
    /\ LET uid == calls[c].auth
           lastVoteTime == IF uid \in DOMAIN userVotes THEN userVotes[uid] ELSE NoTime
           newVoters == Append(calls[c].reportData.voters, uid)
       IN calls' = [calls EXCEPT ![c] =
              IF RateLimited(lastVoteTime, now)
                  THEN [Finish(c, "resource-exhausted") EXCEPT !.sincePrev = SincePrev(uid)]
              ELSE [calls[c] EXCEPT !.pc = "updateReport", !.sincePrev = SincePrev(uid),
                                    !.reportData.voters = newVoters]]
    /\ UNCHANGED <<now, reports, userVotes>>

\* lines 365-369: upvotes: increment(1), voters: newVoters (updatedAt, which no
\* handler reads, is not kept)
UpdatedReport(doc, newVoters) ==
    [doc EXCEPT !.upvotes = doc.upvotes + 1, !.voters = newVoters]

VoteReportUpdateReport(c) ==
    /\ calls[c].pc = "updateReport"
    /\ LET id == calls[c].reportId IN
       IF id \in DOMAIN reports
          THEN /\ reports' = [reports EXCEPT ![id] =
                      UpdatedReport(reports[id], calls[c].reportData.voters)]
               /\ calls' = [calls EXCEPT ![c].pc = "setUserVotes"]
          ELSE \* update() of a missing document rejects; the catch maps it to internal
               /\ calls' = [calls EXCEPT ![c] = Finish(c, "internal")]
               /\ UNCHANGED reports
    /\ UNCHANGED <<now, userVotes>>

\* lines 372-374: userVotesRef.set({ lastVoteTime: serverTimestamp() })
SetLastVoteTime(votes, uid, serverTime) ==
    [u \in DOMAIN votes \cup {uid} |-> IF u = uid THEN serverTime ELSE votes[u]]

VoteReportSetUserVotes(c) ==
    /\ calls[c].pc = "setUserVotes"
    /\ userVotes' = SetLastVoteTime(userVotes, calls[c].auth, now)
    /\ calls' = [calls EXCEPT ![c].pc = "updateScore", ![c].wrote = now]
    /\ UNCHANGED <<now, reports>>

\* lines 376-382: aiScore from the upvotes read at the start, plus one; then return
VoteReportUpdateScore(c) ==
    /\ calls[c].pc = "updateScore"
    /\ LET id == calls[c].reportId
           newUpvotes == calls[c].reportData.upvotes + 1
       IN IF id \in DOMAIN reports
             THEN /\ reports' = [reports EXCEPT ![id].aiScore = voteAiScore(newUpvotes)]
                  /\ calls' = [calls EXCEPT ![c] = Finish(c, "ok")]
             ELSE /\ calls' = [calls EXCEPT ![c] = Finish(c, "internal")]
                  /\ UNCHANGED reports
    /\ UNCHANGED <<now, userVotes>>

\* time passes
Tick ==
    /\ now + TickMs <= MaxTime
    /\ now' = now + TickMs
    /\ UNCHANGED <<reports, userVotes, calls>>

----------------------------------------------------------------------------
(* The mock service of the mobile app (reports.ts) *)

\* reports.ts 34: 86400000, one day in milliseconds
DayMs == 86400000

\* reports.ts 22-65: the seeded reports; createdAt counts from the load of the module
SeededReports ==
    << [id |-> "1", isPublic |-> TRUE, status |-> "new",
        urgencyScore |-> LitTenths(75), voteCount |-> 12, userId |-> "test-user",
        createdAt |-> 0 - DayMs],
       [id |-> "2", isPublic |-> TRUE, status |-> "in_progress",
        urgencyScore |-> LitTenths(82), voteCount |-> 8, userId |-> "test-user",
        createdAt |-> 0 - 2 * DayMs],
       [id |-> "3", isPublic |-> FALSE, status |-> "resolved",
        urgencyScore |-> LitTenths(61), voteCount |-> 3, userId |-> "test-admin",
        createdAt |-> 0 - 3 * DayMs] >>

\* an empty Map
EmptyMap == [k \in {} |-> {}]

\* Array.prototype.find(r => r.id === reportId): index of the first match, 0 if none
FindReport(reportId) ==
    IF \E i \in DOMAIN mockReports : mockReports[i].id = reportId
       THEN CHOOSE i \in DOMAIN mockReports :
                /\ mockReports[i].id = reportId
                /\ \A j \in 1..(i - 1) : mockReports[j].id # reportId
       ELSE 0

\* reports.ts 136-138: if (!mockVotes.has(reportId)) mockVotes.set(reportId, new Set())
EnsureVoteSet(votes, reportId) ==
    IF reportId \in DOMAIN votes THEN votes
    ELSE [k \in DOMAIN votes \cup {reportId} |-> IF k = reportId THEN {} ELSE votes[k]]

\* reports.ts 151: report.voteCount = reportVotes.size
MockVoteCount(reportVotes) == Cardinality(reportVotes)

\* reports.ts 133-156: voteReport of the mock; it never yields, so it is one step
MockVoteReport(reportId, userId) ==
    LET ensured == EnsureVoteSet(mockVotes, reportId)
        reportVotes == ensured[reportId]
    IN IF userId \in reportVotes
          THEN /\ mockVotes' = ensured
               /\ mockResult' = [op |-> "voteReport", reportId |-> reportId,
                                 userId |-> userId,
                                 error |-> "You have already voted on this report"]
               /\ UNCHANGED mockReports
          ELSE LET added == [ensured EXCEPT ![reportId] = reportVotes \cup {userId}]
                   i == FindReport(reportId)
               IN /\ mockVotes' = added
                  /\ mockReports' =
                        IF i # 0
                           THEN [mockReports EXCEPT ![i].voteCount =
                                    MockVoteCount(added[reportId])]
                           ELSE mockReports
                  /\ mockResult' = [op |-> "voteReport", reportId |-> reportId,
                                    userId |-> userId, error |-> "none"]

MockReportIdArgs == {"1", "2", "3", "report-0"}
MockUserIdArgs == UserIds \cup {"user-0"}

----------------------------------------------------------------------------
(* The mock authentication of the mobile app (auth.ts) *)

NoUser == "null"

\* auth.ts 21-36: the two seeded profiles
SeededUsers ==
    [uid \in UserIds |-> [role |-> IF uid = "test-admin" THEN "admin" ELSE "user"]]

\* Map.prototype.set
MapSet(map, key, value) ==
    [k \in DOMAIN map \cup {key} |-> IF k = key THEN value ELSE map[k]]

\* auth.ts 50: uid: `user-${Date.now()}`
NewUid(time) == "user-" \o ToString(time)

\* auth.ts 42-76: signUp stores a profile with role "user" and signs it in
SignUp ==
    /\ Cardinality(DOMAIN mockUsers) < Cardinality(UserIds) + MaxSignUps
    /\ mockUsers' = MapSet(mockUsers, NewUid(now), [role |-> "user"])
    /\ currentUser' = NewUid(now)

Credentials == {"user@test.com", "admin@test.com", "other@test.com"}

\* auth.ts 78-115: signIn knows the two test accounts; anything else throws
SignIn(email, passwordOk) ==
    /\ currentUser' =
          IF email = "user@test.com" /\ passwordOk THEN "test-user"
          ELSE IF email = "admin@test.com" /\ passwordOk THEN "test-admin"
          ELSE currentUser
    /\ UNCHANGED mockUsers

\* auth.ts 117-124: signOutUser
SignOutUser ==
    /\ currentUser' = NoUser
    /\ UNCHANGED mockUsers

\* part_001 63-65: isAdmin = () => user?.role === 'admin'
isAdmin == currentUser # NoUser /\ mockUsers[currentUser].role = "admin"

----------------------------------------------------------------------------
(* Creating reports and updating their status in the mock service *)

StatusArgs == {"new", "in_progress", "resolved"}

\* reports.ts 76: Math.random() * 10 lies in [0, 10); three of its values, in tenths
RandomTenths == {0, 50, 99}

\* reports.ts 73: id: `report-${Date.now()}`
NewReportId(time) == "report-" \o ToString(time)

\* the argument of createReport as it arrives at run time: the declared type omits
\* status and voteCount, an untyped caller may still pass them
ReportDataArgs ==
    [isPublic : BOOLEAN, userId : MockUserIdArgs,
     status : {"new", "resolved"}, voteCount : {0, 5},
     description : {"Broken light"}, location : {"here"}]

\* part_005: location is an object or absent
NoLocation == "undefined"

\* descriptions as typed into the form, and as an untyped caller may pass them
DescriptionArgs == {"", " ", " Broken light ", "Broken light"}

LocationArgs == {NoLocation, "here"}

\* NewReportScreen.tsx 97, 118: String.prototype.trim on the descriptions above
Trim(description) ==
    CASE description = " " -> ""
      [] description = " Broken light " -> "Broken light"
      [] OTHER -> description

\* the argument of createReport with a description and a location of any kind
UncheckedDataArgs ==
    [isPublic : BOOLEAN, userId : MockUserIdArgs,
     description : {Trim(d) : d \in DescriptionArgs}, location : LocationArgs]

\* reports.ts 72-81: the object literal; the fields written after ...reportData
\* replace those of reportData
NewReport(reportData, userId, time, random) ==
    [id |-> NewReportId(time),
     isPublic |-> reportData.isPublic,
     status |-> "new",
     urgencyScore |-> LitTenths(random),
     voteCount |-> 0,
     userId |-> userId,
     createdAt |-> time]

\* reports.ts 70-88: createReport
MockCreateReport(reportData, userId, random) ==
    /\ Len(mockReports) < Len(SeededReports) + MaxCreates
    /\ mockReports' = Append(mockReports, NewReport(reportData, userId, now, random))
    /\ mockResult' = [op |-> "createReport", reportId |-> NewReportId(now),
                      userId |-> userId, error |-> "none",
                      description |-> reportData.description,
                      location |-> reportData.location]
    /\ UNCHANGED mockVotes

\* NewReportScreen.tsx 96-149: handleSubmit; the uploads of 129-138 return a URL
\* and store nothing
HandleSubmit(description, location, isPublic, random) ==
    LET refuse(message) ==
            /\ mockResult' = [op |-> "handleSubmit", reportId |-> "none",
                              userId |-> currentUser, error |-> message,
                              description |-> description, location |-> location]
            /\ UNCHANGED <<mockReports, mockVotes>>
    IN IF Trim(description) = ""
          THEN refuse("Please enter a description")
          ELSE IF location = NoLocation
          THEN refuse("Location is required")
          ELSE IF currentUser = NoUser
          THEN refuse("You must be logged in to create a report")
          ELSE MockCreateReport([description |-> Trim(description),
                                 location |-> location,
                                 isPublic |-> isPublic,
                                 userId |-> currentUser], currentUser, random)

\* the position of a status in the order new, in_progress, resolved
StatusRank(status) ==
    CASE status = "new" -> 0 [] status = "in_progress" -> 1 [] OTHER -> 2

\* an update that only moves a report forward in that order
MockUpdateReportStatusForward(reportId, status) ==
    LET i == FindReport(reportId)
    IN /\ mockReports' =
              IF i # 0 /\ StatusRank(status) > StatusRank(mockReports[i].status)
                 THEN [mockReports EXCEPT ![i].status = status] ELSE mockReports
       /\ mockResult' = [op |-> "updateReportStatus", reportId |-> reportId,
                         userId |-> currentUser, error |-> "none",
                         before |-> IF i # 0 THEN mockReports[i].status ELSE "none",
                         status |-> status]
       /\ UNCHANGED mockVotes

\* reports.ts 158-168: updateReportStatus; the caller is whoever is signed in
MockUpdateReportStatus(reportId, status) ==
    LET i == FindReport(reportId)
    IN /\ mockReports' =
              IF i # 0 THEN [mockReports EXCEPT ![i].status = status] ELSE mockReports
       /\ mockResult' = [op |-> "updateReportStatus", reportId |-> reportId,
                         userId |-> currentUser, error |-> "none",
                         before |-> IF i # 0 THEN mockReports[i].status ELSE "none",
                         status |-> status]
       /\ UNCHANGED mockVotes

\* part_006 53-66: ReportDetailScreen.handleStatusUpdate
HandleStatusUpdate(reportId, newStatus) ==
    IF ~isAdmin
       THEN /\ mockResult' = [op |-> "handleStatusUpdate", reportId |-> reportId,
                              userId |-> currentUser,
                              error |-> "Only admins can update report status",
                              before |-> IF FindReport(reportId) # 0
                                            THEN mockReports[FindReport(reportId)].status
                                            ELSE "none",
                              status |-> newStatus]
            /\ UNCHANGED <<mockReports, mockVotes>>
       ELSE MockUpdateReportStatus(reportId, newStatus)

----------------------------------------------------------------------------
(* The 'users' collection: security rules and savePushToken *)

NoToken == ""
TokenArgs == {NoToken, "token-a", "token-b"}
RoleArgs == {"user", "admin"}

\* the push token of each test account's device
TokenOf(uid) == IF uid = "test-user" THEN "token-a" ELSE "token-b"

\* the profile documents of the two test accounts, without push tokens
SeededUserDocs ==
    [uid \in UserIds |-> [role |-> SeededUsers[uid].role, pushToken |-> NoToken]]

\* storage.rules 27: allow read, write: if request.auth != null
\*                                       && request.auth.uid == userId
RulesAllowUserWrite(auth, userId) == auth # NoAuth /\ auth = userId

\* storage.rules 28, 38, 44: get(.../users/$(request.auth.uid)).data.role == 'admin'
RulesIsAdmin(auth) ==
    auth # NoAuth /\ auth \in DOMAIN users /\ users[auth].role = "admin"

\* a client write (set) of the document users/{userId}; the rules decide
UserDocWrite(auth, userId, data) ==
    /\ users' = IF RulesAllowUserWrite(auth, userId)
                   THEN MapSet(users, userId, data)
                   ELSE users
    /\ UNCHANGED <<identities, storage, events, notify, del>>

\* a client delete of the document users/{userId}: a write, by the same rule
UserDocDelete(auth, userId) ==
    /\ users' = IF RulesAllowUserWrite(auth, userId)
                   THEN [u \in DOMAIN users \ {userId} |-> users[u]]
                   ELSE users
    /\ UNCHANGED <<identities, storage, events, notify, del>>

\* README.md 453-473: savePushToken; update() of a missing document rejects and
\* the catch turns every error into internal
SavePushToken(auth, token, backendFails) ==
    /\ users' = IF /\ auth # NoAuth
                   /\ token # NoToken
                   /\ ~backendFails
                   /\ auth \in DOMAIN users
                   THEN [users EXCEPT ![auth].pushToken = token]
                   ELSE users
    /\ UNCHANGED <<identities, storage, events, notify, del>>

----------------------------------------------------------------------------
(* notifyOnStatusChange: the onUpdate trigger of 'reports' *)

\* storage.rules 41-44: the owner or an admin may update a report (the rules name
\* the author field userId, the functions authorId; a document carries one author)
RulesAllowReportUpdate(auth, doc) ==
    /\ auth # NoAuth
    /\ doc.authorId = auth \/ RulesIsAdmin(auth)

\* the event the platform hands to an onUpdate trigger
UpdateEvent(reportId, before, after) ==
    [reportId |-> reportId, before |-> before, after |-> after]

\* every committed write of the step that changed a report document is an event
OnUpdate ==
    events' =
       IF reports' = reports THEN events
       ELSE LET id == CHOOSE r \in DOMAIN reports : reports'[r] # reports[r]
            IN Append(events, UpdateEvent(id, reports[id], reports'[id]))

\* a client updates the status field of a report; the rules decide
FirestoreUpdateStatus(auth, reportId, status) ==
    /\ notify.statusWrites < MaxUpdates
    /\ Len(events) < MaxQueue
    /\ reportId \in DOMAIN reports
    /\ RulesAllowReportUpdate(auth, reports[reportId])
    /\ reports' = [reports EXCEPT ![reportId].status = status]
    /\ events' = Append(events, UpdateEvent(reportId, reports[reportId],
                                            reports'[reportId]))
    /\ notify' = [notify EXCEPT !.statusWrites = @ + 1]
    /\ UNCHANGED <<now, userVotes, calls, users, identities, storage, del>>

\* statusWrites, transitions and fanOuts count, over the whole run, the status
\* writes of clients, the handled events whose status differs, and the fan-outs
IdleNotify ==
    [pc |-> "idle", reportId |-> NoReportId, status |-> "none",
     pending |-> <<>>, tokens |-> <<>>, looked |-> <<>>,
     considered |-> {}, failed |-> {}, sent |-> <<>>, delivered |-> {},
     sendFailed |-> FALSE, statusWrites |-> 0, transitions |-> 0, fanOuts |-> 0]

\* README.md 402: if (beforeData.status === afterData.status) return;
StatusChangedAlways(before, after) == TRUE
StatusChanged(before, after) == before.status # after.status

RECURSIVE AddAll(_, _)
\* Set.prototype.add of each element of an array, in order: a Set keeps insertion
\* order and holds each value once
AddAll(ordered, arr) ==
    IF arr = <<>> THEN ordered
    ELSE AddAll(IF Includes(ordered, Head(arr)) THEN ordered
                ELSE Append(ordered, Head(arr)),
                Tail(arr))

\* README.md 408-413: usersToNotify
UsersToNotifyAuthorOnly(after) == <<after.authorId>>
UsersToNotify(after) == AddAll(<<after.authorId>>, after.voters)

\* README.md 395-413: the trigger starts on the oldest event
NotifyStart ==
    /\ notify.pc = "idle"
    /\ events # <<>>
    /\ LET e == Head(events)
           changed == e.before.status # e.after.status
       IN notify' =
             IF StatusChanged(e.before, e.after)
                THEN [IdleNotify EXCEPT
                        !.pc = "lookup",
                        !.reportId = e.reportId,
                        !.status = e.after.status,
                        !.pending = UsersToNotify(e.after),
                        !.considered = {e.after.authorId} \cup
                                       {e.after.voters[i] : i \in DOMAIN e.after.voters},
                        !.statusWrites = notify.statusWrites,
                        !.transitions = notify.transitions + (IF changed THEN 1 ELSE 0),
                        !.fanOuts = notify.fanOuts + 1]
                ELSE [IdleNotify EXCEPT
                        !.statusWrites = notify.statusWrites,
                        !.transitions = notify.transitions + (IF changed THEN 1 ELSE 0),
                        !.fanOuts = notify.fanOuts]
    /\ events' = Tail(events)
    /\ UNCHANGED <<cfVars, users, identities, storage, del>>

\* README.md 422: userData?.pushToken is truthy
HasPushToken(userId) == userId \in DOMAIN users /\ users[userId].pushToken # NoToken

\* README.md 426-428: what a failed lookup of one user does to the handler
LookupFailureAborts(n) == [n EXCEPT !.pc = "raised", !.pending = <<>>]
LookupFailure(n) == [n EXCEPT !.pending = Tail(n.pending)]

\* README.md 417-429: one iteration of the loop over usersToNotify; the get() may
\* reject, and the catch then goes on with the next user
NotifyGetUser(lookupFails) ==
    /\ notify.pc = "lookup"
    /\ notify.pending # <<>>
    /\ LET userId == Head(notify.pending)
       IN notify' =
             IF lookupFails
                THEN LookupFailure([notify EXCEPT !.failed = @ \cup {userId},
                                                  !.looked = Append(@, userId)])
                ELSE [notify EXCEPT
                        !.pending = Tail(@),
                        !.looked = Append(@, userId),
                        !.tokens = IF HasPushToken(userId)
                                      THEN Append(@, users[userId].pushToken)
                                      ELSE @]
    /\ UNCHANGED <<cfVars, users, identities, storage, events, del>>

\* README.md 431-449: one sendMulticast for all collected tokens; it may reject as
\* a whole (caught), and otherwise reports success or failure per token
NotifySend(sendFails, delivered) ==
    /\ notify.pc = "lookup"
    /\ notify.pending = <<>>
    /\ notify.tokens # <<>>
    /\ delivered \subseteq {notify.tokens[i] : i \in DOMAIN notify.tokens}
    /\ sendFails => delivered = {}
    /\ notify' = [notify EXCEPT !.pc = "done", !.sent = notify.tokens,
                                !.delivered = delivered, !.sendFailed = sendFails]
    /\ UNCHANGED <<cfVars, users, identities, storage, events, del>>

\* README.md 431: no token, no message
NotifyNoTokens ==
    /\ notify.pc = "lookup"
    /\ notify.pending = <<>>
    /\ notify.tokens = <<>>
    /\ notify' = [notify EXCEPT !.pc = "done"]
    /\ UNCHANGED <<cfVars, users, identities, storage, events, del>>

\* README.md 450: the handler returns
NotifyReturn ==
    /\ notify.pc \in {"done", "raised"}
    /\ notify' = [IdleNotify EXCEPT !.statusWrites = notify.statusWrites,
                                    !.transitions = notify.transitions,
                                    !.fanOuts = notify.fanOuts]
    /\ UNCHANGED <<cfVars, users, identities, storage, events, del>>

----------------------------------------------------------------------------
(* deleteAccountData *)

\* storage.rules 5 and reports.ts 93: a photo of a report is the object
\* reports/{reportId}/{fileName}
Object(dir, name) == [dir |-> dir, name |-> name]

\* bucket.getFiles({ prefix: `reports/${dir}/` })
FilesUnderPrefix(dir) == {o \in storage : o.dir = dir}

\* the author of each stored report
SeededAuthor(id) == IF id = "3" THEN "test-admin" ELSE "test-user"

\* the photos stored for the reports that userId wrote
PhotosOf(userId) ==
    {o \in storage : o.dir \in {id \in StoredReportIds : SeededAuthor(id) = userId}}

IdleDelete ==
    [pc |-> "idle", auth |-> NoAuth, docs |-> {}, files |-> {}, result |-> "none",
     attempts |-> 0, failures |-> 0, injected |-> FALSE, committed |-> FALSE,
     filesDone |-> FALSE, retry |-> FALSE]

\* the function returns or throws; its locals are gone
DeleteFinish(result) ==
    [del EXCEPT !.pc = "done", !.docs = {}, !.files = {}, !.result = result]

\* a backend call rejects; lines 517-520 turn every error into internal
DeleteFails ==
    [DeleteFinish("internal") EXCEPT !.failures = del.failures + 1, !.injected = TRUE]

\* README.md 476-481: the caller holds an identity, or is not authenticated; a call
\* starts when the previous one has returned
DeleteInvoke(auth) ==
    /\ del.pc \in {"idle", "done"}
    /\ del.attempts < MaxDeleteCalls
    /\ auth = NoAuth \/ auth \in identities
    /\ del' = IF auth = NoAuth
                 THEN [DeleteFinish("unauthenticated") EXCEPT
                         !.auth = NoAuth, !.attempts = del.attempts + 1,
                         !.injected = FALSE, !.committed = FALSE,
                         !.filesDone = FALSE, !.retry = FALSE]
                 ELSE [del EXCEPT
                         !.pc = "query", !.auth = auth, !.result = "none",
                         !.attempts = del.attempts + 1,
                         !.injected = FALSE, !.committed = FALSE, !.filesDone = FALSE,
                         !.retry = /\ del.pc = "done"
                                   /\ del.auth = auth
                                   /\ del.result = "internal"
                                   /\ del.committed]
    /\ UNCHANGED <<cfVars, users, identities, storage, events, notify>>

\* README.md 485-487: where('authorId', '==', userId).get()
DeleteQuery(fails) ==
    /\ del.pc = "query"
    /\ fails => del.failures < MaxFailures
    /\ del' = IF fails THEN DeleteFails
              ELSE [del EXCEPT !.pc = "commit",
                               !.docs = {id \in DOMAIN reports :
                                            reports[id].authorId = del.auth}]
    /\ UNCHANGED <<cfVars, users, identities, storage, events, notify>>

\* a batch of deletes has no precondition: deleting a missing document succeeds
BatchRejectsMissing(docs, userId) == userId \notin DOMAIN users
BatchRejects(docs, userId) == FALSE

\* the collection without the documents of the given ids
Without(collection, ids) == [k \in DOMAIN collection \ ids |-> collection[k]]

\* README.md 492-494: the reports left by the batch
CommitReportsScrubVoter(docs, userId) ==
    [id \in DOMAIN reports \ docs |->
        [reports[id] EXCEPT !.voters = SelectSeq(@, LAMBDA v : v # userId)]]
CommitReports(docs, userId) == Without(reports, docs)

\* README.md 489-502: the batch deletes the reports of the query, users/{userId}
\* and userVotes/{userId}, all or nothing
DeleteCommit(fails) ==
    /\ del.pc = "commit"
    /\ fails => del.failures < MaxFailures
    /\ IF fails
          THEN /\ del' = DeleteFails
               /\ UNCHANGED <<reports, users, userVotes>>
          ELSE IF BatchRejects(del.docs, del.auth)
          THEN /\ del' = DeleteFinish("internal")
               /\ UNCHANGED <<reports, users, userVotes>>
          ELSE /\ reports' = CommitReports(del.docs, del.auth)
               /\ users' = Without(users, {del.auth})
               /\ userVotes' = Without(userVotes, {del.auth})
               /\ del' = [del EXCEPT !.pc = "getFiles", !.committed = TRUE]
    /\ UNCHANGED <<now, calls, identities, storage, events, notify>>

\* README.md 505-512: list the objects under reports/{userId}/; with none to
\* delete the function goes straight on to deleteUser
DeleteGetFiles(fails) ==
    /\ del.pc = "getFiles"
    /\ fails => del.failures < MaxFailures
    /\ del' = IF fails THEN DeleteFails
              ELSE IF FilesUnderPrefix(del.auth) = {}
                      THEN [del EXCEPT !.pc = "deleteUser", !.filesDone = TRUE]
                      ELSE [del EXCEPT !.pc = "deleteFiles",
                                       !.files = FilesUnderPrefix(del.auth)]
    /\ UNCHANGED <<cfVars, users, identities, storage, events, notify>>

\* README.md 511: Promise.all(files.map(file => file.delete())); every delete is
\* started, each may fail, and one failure rejects the whole
DeleteFiles(failed) ==
    /\ del.pc = "deleteFiles"
    /\ failed \subseteq del.files
    /\ failed # {} => del.failures < MaxFailures
    /\ storage' = storage \ (del.files \ failed)
    /\ del' = IF failed # {} THEN DeleteFails
              ELSE [del EXCEPT !.pc = "deleteUser", !.files = {}, !.filesDone = TRUE]
    /\ UNCHANGED <<cfVars, users, identities, events, notify>>

\* README.md 515: admin.auth().deleteUser(userId), the last step
DeleteAuthUser(fails) ==
    /\ del.pc = "deleteUser"
    /\ fails => del.failures < MaxFailures
    /\ IF fails
          THEN /\ del' = DeleteFails
               /\ UNCHANGED identities
          ELSE /\ identities' = identities \ {del.auth}
               /\ del' = DeleteFinish("ok")
    /\ UNCHANGED <<cfVars, users, storage, events, notify>>

----------------------------------------------------------------------------
(* Reading reports in the mock service *)

RECURSIVE InsertByCreatedAt(_, _)
\* where a stable sort with the comparator b.createdAt - a.createdAt puts a
\* report that came after those already placed: behind every report that is not
\* older than it
InsertByCreatedAt(sorted, report) ==
    IF sorted = <<>> THEN <<report>>
    ELSE IF Head(sorted).createdAt >= report.createdAt
            THEN <<Head(sorted)>> \o InsertByCreatedAt(Tail(sorted), report)
            ELSE <<report>> \o sorted

\* no sort at all
SortUnsorted(arr) == arr

RECURSIVE SortByCreatedAtDesc(_)
\* reports.ts 104, 115: .sort((a, b) => b.createdAt.getTime() - a.createdAt.getTime())
SortByCreatedAtDesc(arr) ==
    IF arr = <<>> THEN <<>>
    ELSE InsertByCreatedAt(SortByCreatedAtDesc(SubSeq(arr, 1, Len(arr) - 1)),
                           arr[Len(arr)])

\* reports.ts 99-108: getPublicReports; filter makes a new array, which sort orders
GetPublicReports ==
    /\ mockResult' = [op |-> "getPublicReports", reportId |-> NoReportId,
                      userId |-> NoUser, caller |-> currentUser, error |-> "none",
                      result |-> SortByCreatedAtDesc(
                                    SelectSeq(mockReports, LAMBDA r : r.isPublic))]
    /\ UNCHANGED <<mockReports, mockVotes>>

\* reports.ts 110-119: getUserReports
GetUserReports(userId) ==
    /\ mockResult' = [op |-> "getUserReports", reportId |-> NoReportId,
                      userId |-> userId, caller |-> currentUser, error |-> "none",
                      result |-> SortByCreatedAtDesc(
                                    SelectSeq(mockReports, LAMBDA r : r.userId = userId))]
    /\ UNCHANGED <<mockReports, mockVotes>>

\* reports.ts 121-131: getReport
GetReport(reportId) ==
    /\ mockResult' =
          [op |-> "getReport", reportId |-> reportId,
           userId |-> NoUser, caller |-> currentUser,
           error |-> IF FindReport(reportId) = 0 THEN "Report not found" ELSE "none",
           result |-> IF FindReport(reportId) = 0 THEN <<>>
                      ELSE <<mockReports[FindReport(reportId)]>>]
    /\ UNCHANGED <<mockReports, mockVotes>>

----------------------------------------------------------------------------
(* Errors of the callable functions as they reach the caller *)

\* new functions.https.HttpsError(kind, message)
HttpsError(kind, message) == [https |-> TRUE, kind |-> kind, message |-> message]

\* the rejection of an awaited backend call: an Error of the client library, not
\* an HttpsError, with a message that describes the backend
BackendError ==
    [https |-> FALSE, kind |-> "backend", message |-> "<detail of the backend>"]

NoError == [https |-> FALSE, kind |-> "none", message |-> ""]

\* README.md 314-357: the message thrown with each kind (of the two not-found
\* messages, the one of line 329)
VoteMessage(kind) ==
    CASE kind = "unauthenticated" -> "User must be authenticated"
      [] kind = "invalid-argument" -> "Report ID is required"
      [] kind = "not-found" -> "Report not found"
      [] kind = "permission-denied" -> "Cannot vote on private reports"
      [] kind = "already-exists" -> "User has already voted on this report"
      [] kind = "resource-exhausted" -> "Rate limit: Please wait before voting again"
      [] OTHER -> ""

\* a catch that throws on whatever it caught
CatchRethrows(error) == error

\* README.md 384-389: the catch of voteReport
VoteCatch(error) ==
    IF error.https THEN error ELSE HttpsError("internal", "Failed to process vote")

\* README.md 517-520: the catch of deleteAccountData
DeleteCatch(error) == HttpsError("internal", "Failed to delete account data")

\* what the latest call of a function started from and how it ended
NoProbe ==
    [fn |-> "none", call |-> 0, reports |-> <<>>, userVotes |-> <<>>,
     checkedAt |-> NoTime, failedAt |-> "none",
     thrown |-> NoError, surfaced |-> NoError]

VoteAwaits == {"getReport", "getUserVotes", "updateReport", "setUserVotes", "updateScore"}

\* README.md 312-326 with one call at a time: the store as the call finds it is kept
SerialVoteInvoke(c, auth, reportId) ==
    /\ \A d \in CallIds : ~InProgress(d)
    /\ del.pc \in {"idle", "done"}
    /\ VoteReportInvoke(c, auth, reportId)
    /\ LET thrown == IF calls'[c].pc = "done"
                        THEN HttpsError(calls'[c].result, VoteMessage(calls'[c].result))
                        ELSE NoError
       IN probe' = [NoProbe EXCEPT !.fn = "voteReport", !.call = c,
                                   !.reports = reports, !.userVotes = userVotes,
                                   \* lines 313-322 throw outside the try
                                   !.thrown = thrown, !.surfaced = thrown]

\* README.md 326-390: one await of the call resolves; what a check throws inside
\* the try passes through the catch
SerialVoteStep(c) ==
    /\ \/ VoteReportGetReport(c)
       \/ VoteReportGetUserVotes(c)
       \/ VoteReportUpdateReport(c)
       \/ VoteReportSetUserVotes(c)
       \/ VoteReportUpdateScore(c)
    /\ LET ended == calls'[c].pc = "done" /\ calls'[c].result # "ok"
           thrown == IF calls'[c].result = "internal"
                        THEN BackendError
                        ELSE HttpsError(calls'[c].result, VoteMessage(calls'[c].result))
       IN probe' = [probe EXCEPT
              !.checkedAt = IF calls[c].pc = "getUserVotes" THEN now ELSE @,
              !.failedAt = IF ended /\ calls'[c].result = "internal"
                              THEN calls[c].pc ELSE @,
              !.thrown = IF ended THEN thrown ELSE @,
              !.surfaced = IF ended THEN VoteCatch(thrown) ELSE @]

\* README.md 326-389: an awaited call of the backend rejects; the catch decides
\* what the caller gets
VoteReportBackendFails(c) ==
    /\ calls[c].pc \in VoteAwaits
    /\ calls' = [calls EXCEPT ![c] = Finish(c, VoteCatch(BackendError).kind)]
    /\ probe' = [probe EXCEPT !.failedAt = calls[c].pc,
                              !.thrown = BackendError,
                              !.surfaced = VoteCatch(BackendError)]
    /\ UNCHANGED <<now, reports, userVotes>>

\* README.md 476-481, called while no other function runs
SerialDeleteInvoke(auth) ==
    /\ \A d \in CallIds : ~InProgress(d)
    /\ DeleteInvoke(auth)
    /\ LET thrown == IF auth = NoAuth
                        THEN HttpsError("unauthenticated", "User must be authenticated")
                        ELSE NoError
       IN probe' = [NoProbe EXCEPT !.fn = "deleteAccountData",
                                   \* lines 477-479 throw outside the try
                                   !.thrown = thrown, !.surfaced = thrown]

----------------------------------------------------------------------------
(* The registry of auth listeners (auth.ts 40, 126-138) *)

\* the callbacks that components pass to onAuthStateChange
ListenerIds == {"a", "b", "c"}
NoListener == "none"

\* what a callback does when it is invoked: nothing to the registry, or it calls
\* the unsubscribe function of one listener (its own or another's)
BehaviourArgs == [ListenerIds -> ListenerIds \cup {NoListener}]

\* Array.prototype.indexOf, counted from 1; 0 for -1
IndexOf(arr, x) ==
    IF \E i \in DOMAIN arr : arr[i] = x
       THEN CHOOSE i \in DOMAIN arr : arr[i] = x /\ \A j \in 1..(i - 1) : arr[j] # x
       ELSE 0

\* Array.prototype.splice(index, 1)
Splice(arr, index) == SubSeq(arr, 1, index - 1) \o SubSeq(arr, index + 1, Len(arr))

\* auth.ts 132-137: the function that onAuthStateChange returns
Unsubscribe(arr, callback) ==
    IF IndexOf(arr, callback) > 0 THEN Splice(arr, IndexOf(arr, callback)) ELSE arr

\* no round yet
IdleRound ==
    [op |-> "none", user |-> NoUser, atStart |-> <<>>, invoked |-> <<>>,
     gone |-> {}, late |-> {}]

\* Array.prototype.forEach over authListeners: the indices 1..len fixed at the
\* start are visited in order, an index beyond the current end of the array is
\* skipped, and each callback may change the array before the next is visited
RECURSIVE ForEach(_, _, _, _, _)
ForEach(arr, k, len, behaviour, trace) ==
    IF k > len THEN [trace EXCEPT !.listeners = arr]
    ELSE IF k > Len(arr) THEN ForEach(arr, k + 1, len, behaviour, trace)
    ELSE LET listener == arr[k]
             target == behaviour[listener]
             removes == target # NoListener /\ IndexOf(arr, target) > 0
         IN ForEach(IF removes THEN Unsubscribe(arr, target) ELSE arr,
                    k + 1, len, behaviour,
                    [trace EXCEPT
                       !.invoked = Append(@, listener),
                       !.late = IF listener \in trace.gone THEN @ \cup {listener} ELSE @,
                       !.gone = IF removes THEN @ \cup {target} ELSE @])

\* auth.ts 61, 84, 98, 120: authListeners.forEach(listener => listener(currentUser))
NotifyListeners(op, user, behaviour) ==
    LET done == ForEach(authListeners, 1, Len(authListeners), behaviour,
                        [listeners |-> authListeners, invoked |-> <<>>,
                         gone |-> {}, late |-> {}])
    IN /\ authListeners' = done.listeners
       /\ round' = [op |-> op, user |-> user, atStart |-> authListeners,
                    invoked |-> done.invoked, gone |-> done.gone, late |-> done.late]

\* auth.ts 126-131: onAuthStateChange pushes the callback and calls it at once
OnAuthStateChange(callback) ==
    /\ IndexOf(authListeners, callback) = 0
    /\ authListeners' = Append(authListeners, callback)
    /\ round' = [IdleRound EXCEPT !.op = "onAuthStateChange", !.user = currentUser,
                                  !.atStart = authListeners, !.invoked = <<callback>>]
    /\ UNCHANGED <<mockUsers, currentUser>>

\* auth.ts 132-137: a component calls the function onAuthStateChange returned
UnsubscribeListener(callback) ==
    /\ authListeners' = Unsubscribe(authListeners, callback)
    /\ round' = [IdleRound EXCEPT !.op = "unsubscribe", !.user = currentUser,
                                  !.atStart = authListeners, !.gone = {callback}]
    /\ UNCHANGED <<mockUsers, currentUser>>

\* auth.ts 42-76: signUp with its listeners
SignUpNotifying(behaviour) ==
    /\ SignUp
    /\ NotifyListeners("signUp", currentUser', behaviour)

\* auth.ts 78-115: signIn with its listeners; a failed signIn throws before forEach
SignInNotifying(email, passwordOk, behaviour) ==
    /\ SignIn(email, passwordOk)
    /\ IF passwordOk /\ email \in {"user@test.com", "admin@test.com"}
          THEN NotifyListeners("signIn", currentUser', behaviour)
          ELSE /\ round' = [IdleRound EXCEPT !.op = "signIn failed", !.user = currentUser,
                                             !.atStart = authListeners]
               /\ UNCHANGED authListeners

\* auth.ts 117-124: signOutUser with its listeners
SignOutNotifying(behaviour) ==
    /\ SignOutUser
    /\ NotifyListeners("signOutUser", NoUser, behaviour)

----------------------------------------------------------------------------
(* The page of the tennis predictor (part_000) *)

\* part_000 32-55: the three blocks are hidden by the style sheet; no request yet
LoadedPage ==
    [loading |-> FALSE, error |-> FALSE, result |-> FALSE,
     errorText |-> "", winProbability |-> "",
     inFlight |-> 0, saving |-> 0, submits |-> 0]

\* what /predict answers: a winner, an error of the backend, or no answer at all
PredictOutcomes ==
    {[ok |-> TRUE, text |-> "Player 1"], [ok |-> TRUE, text |-> "Player 2"],
     [ok |-> FALSE, text |-> "Player not found"], [ok |-> FALSE, text |-> "Failed to fetch"]}

\* part_000 185-196: the submit handler up to its first await
Submitted(p) ==
    [p EXCEPT !.loading = TRUE, !.error = FALSE, !.result = FALSE,
              !.inFlight = @ + 1, !.submits = @ + 1]

\* part_000 184-196: the form is submitted
Submit ==
    /\ page.submits < MaxSubmits
    /\ page' = Submitted(page)

\* part_000 196-223: the answer of one request arrives; try, catch and finally
PredictSettles(outcome) ==
    /\ page.inFlight > 0
    /\ page' = IF outcome.ok
                  THEN [page EXCEPT !.inFlight = @ - 1,
                                    !.winProbability = outcome.text,
                                    !.result = TRUE,
                                    !.loading = FALSE]
                  ELSE [page EXCEPT !.inFlight = @ - 1,
                                    !.errorText = outcome.text,
                                    !.error = TRUE,
                                    !.loading = FALSE]

\* part_000 249-267: Save is clicked; /add_player is requested
SavePlayerInfo ==
    /\ page.saving < MaxSaves
    /\ page' = [page EXCEPT !.saving = @ + 1]

\* part_000 269-279: the answer of /add_player arrives; on success the form is
\* submitted again, which runs the submit handler up to its first await
AddPlayerSettles(success) ==
    /\ page.saving > 0
    /\ success => page.submits < MaxSubmits
    /\ page' = IF success THEN Submitted([page EXCEPT !.saving = @ - 1])
                          ELSE [page EXCEPT !.saving = @ - 1]


----------------------------------------------------------------------------
(* Specifications *)

InitStore ==
    /\ now = 0
    /\ reports = [id \in StoredReportIds |->
                     IF id = "3" THEN InitialReport(FALSE, "test-admin")
                                 ELSE InitialReport(TRUE, "test-user")]
    /\ userVotes = [u \in {} |-> NoTime]

\* at most MaxCalls invocations, all of which may overlap
InitCF == InitStore /\ calls = [c \in 1..MaxCalls |-> IdleCall]

\* one invocation more, of which at most MaxCalls are in flight at a time
InitCFLate == InitStore /\ calls = [c \in 1..(MaxCalls + 1) |-> IdleCall]

NoSnap == [upvotes |-> 0, aiScore |-> NoScore]

InitMock ==
    /\ mockReports = SeededReports
    /\ mockVotes = EmptyMap
    /\ mockResult = [op |-> "none", reportId |-> NoReportId, userId |-> NoAuth,
                     error |-> "none"]

\* nothing observed, nobody subscribed, the page as loaded
InitOther ==
    /\ probe = NoProbe
    /\ authListeners = <<>>
    /\ round = IdleRound
    /\ page = LoadedPage

InitAuth ==
    /\ mockUsers = SeededUsers
    /\ currentUser = NoUser

\* the backend at rest: both test accounts exist, nothing is stored or running
InitBackend ==
    /\ users = SeededUserDocs
    /\ identities = UserIds
    /\ storage = {}
    /\ events = <<>>
    /\ notify = IdleNotify
    /\ del = IdleDelete

\* the created document of computeUrgency, before the trigger ran
InitSnap == snap \in {[upvotes |-> v, aiScore |-> NoScore] : v \in 0..MaxUpvotes}

\* README.md 297-309: computeUrgency writes aiScore into the created document
ComputeUrgency ==
    /\ snap.aiScore = NoScore
    /\ snap' = [snap EXCEPT !.aiScore = computeUrgencyScore(snap.upvotes)]

\* the Cloud Function over Firestore
NextCF ==
    \/ \E c \in CallIds, auth \in AuthArgs, reportId \in ReportIdArgs :
           VoteReportInvoke(c, auth, reportId) /\ UNCHANGED <<mockVars, snap, authVars, backendVars, otherVars>>
    \/ \E c \in CallIds : VoteReportGetReport(c) /\ UNCHANGED <<mockVars, snap, authVars, backendVars, otherVars>>
    \/ \E c \in CallIds : VoteReportGetUserVotes(c) /\ UNCHANGED <<mockVars, snap, authVars, backendVars, otherVars>>
    \/ \E c \in CallIds : VoteReportUpdateReport(c) /\ UNCHANGED <<mockVars, snap, authVars, backendVars, otherVars>>
    \/ \E c \in CallIds : VoteReportSetUserVotes(c) /\ UNCHANGED <<mockVars, snap, authVars, backendVars, otherVars>>
    \/ \E c \in CallIds : VoteReportUpdateScore(c) /\ UNCHANGED <<mockVars, snap, authVars, backendVars, otherVars>>
    \/ Tick /\ UNCHANGED <<mockVars, snap, authVars, backendVars, otherVars>>

InitSpecCF == InitCF /\ InitMock /\ snap = NoSnap /\ InitAuth /\ InitOther /\ InitBackend

SpecCF == InitSpecCF /\ [][NextCF]_vars

InitSpecCFLate == InitCFLate /\ InitMock /\ snap = NoSnap /\ InitAuth /\ InitOther /\ InitBackend

SpecCFLate == InitSpecCFLate /\ [][NextCF]_vars

\* the mock service
NextMock ==
    \/ \E reportId \in MockReportIdArgs, userId \in MockUserIdArgs :
           MockVoteReport(reportId, userId) /\ UNCHANGED <<cfVars, snap, authVars, backendVars, otherVars>>

SpecMock == InitSpecCF /\ [][NextMock]_vars

Init == InitCF /\ InitMock /\ InitSnap /\ InitAuth /\ InitOther /\ InitBackend

\* the urgency score as a function of the vote count
NextScore ==
    \/ ComputeUrgency /\ UNCHANGED <<cfVars, mockVars, authVars, backendVars, otherVars>>

SpecScore == Init /\ [][NextScore]_vars

\* creating reports in the mock service
NextCreate ==
    \/ \E reportData \in ReportDataArgs, userId \in MockUserIdArgs, random \in RandomTenths :
           MockCreateReport(reportData, userId, random)
           /\ UNCHANGED <<cfVars, snap, authVars, backendVars, otherVars>>
    \/ Tick /\ UNCHANGED <<mockVars, snap, authVars, backendVars, otherVars>>

SpecCreate == InitSpecCF /\ [][NextCreate]_vars

\* signing in and updating the status of reports in the mock service
NextStatus ==
    \/ SignUp /\ UNCHANGED <<cfVars, mockVars, snap, backendVars, otherVars>>
    \/ \E email \in Credentials, passwordOk \in BOOLEAN :
           SignIn(email, passwordOk) /\ UNCHANGED <<cfVars, mockVars, snap, backendVars, otherVars>>
    \/ SignOutUser /\ UNCHANGED <<cfVars, mockVars, snap, backendVars, otherVars>>
    \/ \E reportId \in MockReportIdArgs, status \in StatusArgs :
           MockUpdateReportStatus(reportId, status)
           /\ UNCHANGED <<cfVars, snap, authVars, backendVars, otherVars>>
    \/ \E reportId \in MockReportIdArgs, newStatus \in StatusArgs :
           HandleStatusUpdate(reportId, newStatus)
           /\ UNCHANGED <<cfVars, snap, authVars, backendVars, otherVars>>

SpecStatus == InitSpecCF /\ [][NextStatus]_vars

\* the profile documents a deployment may hold: a test account has none, or one
\* with its role and any push token
UserDocsChoices ==
    UNION {{docs \in [S -> [role : RoleArgs, pushToken : {NoToken, "token-a", "token-b"}]] :
               \A u \in S : /\ docs[u].role = SeededUsers[u].role
                             /\ docs[u].pushToken \in {NoToken, TokenOf(u)}} :
           S \in SUBSET UserIds}

\* notifyOnStatusChange with the writes that trigger it: the two writes of one
\* vote, and status updates
InitNotify ==
    /\ InitStore
    /\ calls = <<IdleCall>>
    /\ InitMock /\ snap = NoSnap /\ InitAuth /\ InitOther
    /\ users \in UserDocsChoices
    /\ identities = UserIds
    /\ storage = {}
    /\ events = <<>>
    /\ notify = IdleNotify
    /\ del = IdleDelete

restOfNotify ==
    <<mockVars, snap, authVars, users, identities, storage, notify, del, otherVars>>

NextNotify ==
    \/ \E c \in CallIds, auth \in UserIds, reportId \in StoredReportIds :
           VoteReportInvoke(c, auth, reportId) /\ OnUpdate /\ UNCHANGED restOfNotify
    \/ \E c \in CallIds : VoteReportGetReport(c) /\ OnUpdate /\ UNCHANGED restOfNotify
    \/ \E c \in CallIds : VoteReportGetUserVotes(c) /\ OnUpdate /\ UNCHANGED restOfNotify
    \/ \E c \in CallIds : VoteReportUpdateReport(c) /\ OnUpdate /\ UNCHANGED restOfNotify
    \/ \E c \in CallIds : VoteReportSetUserVotes(c) /\ OnUpdate /\ UNCHANGED restOfNotify
    \/ \E c \in CallIds : VoteReportUpdateScore(c) /\ OnUpdate /\ UNCHANGED restOfNotify
    \/ \E auth \in AuthArgs, reportId \in StoredReportIds, status \in StatusArgs :
           FirestoreUpdateStatus(auth, reportId, status)
           /\ UNCHANGED <<mockVars, snap, authVars, otherVars>>
    \/ NotifyStart /\ UNCHANGED <<mockVars, snap, authVars, otherVars>>
    \/ \E lookupFails \in BOOLEAN :
           NotifyGetUser(lookupFails) /\ UNCHANGED <<mockVars, snap, authVars, otherVars>>
    \/ \E sendFails \in BOOLEAN, delivered \in SUBSET TokenArgs :
           NotifySend(sendFails, delivered) /\ UNCHANGED <<mockVars, snap, authVars, otherVars>>
    \/ NotifyNoTokens /\ UNCHANGED <<mockVars, snap, authVars, otherVars>>
    \/ NotifyReturn /\ UNCHANGED <<mockVars, snap, authVars, otherVars>>

SpecNotify == InitNotify /\ [][NextNotify]_vars

\* the objects a deployment may hold: photos of the stored reports, and objects
\* an authenticated client wrote under a directory named after a user
\* (storage.rules 5-9 allow any directory under reports/)
ObjectChoices ==
    {Object("1", "image-0.jpg"), Object("3", "image-0.jpg"),
     Object("test-user", "image-0.jpg"), Object("test-user", "image-1.jpg")}

VoterChoices == {<<>>, <<"test-user">>, <<"test-admin">>, <<"test-user", "test-admin">>}

\* a stored report that has been voted on by the given voters
VotedReport(id, voters) ==
    [InitialReport(id # "3", SeededAuthor(id)) EXCEPT
        !.voters = voters,
        !.upvotes = Len(voters),
        !.aiScore = computeUrgencyScore(Len(voters))]

\* deleteAccountData on a store that has reports, votes and photos
InitDelete ==
    /\ now = 0
    /\ reports \in {[id \in StoredReportIds |-> VotedReport(id, v[id])] :
                        v \in [StoredReportIds -> VoterChoices]}
    /\ userVotes \in {[u \in S |-> 0] : S \in SUBSET UserIds}
    /\ calls = [c \in 1..MaxCalls |-> IdleCall]
    /\ InitMock /\ snap = NoSnap /\ InitAuth /\ InitOther
    /\ users = SeededUserDocs
    /\ identities = UserIds
    /\ storage \in SUBSET ObjectChoices
    /\ events = <<>>
    /\ notify = IdleNotify
    /\ del = IdleDelete

NextDelete ==
    \/ \E auth \in AuthArgs : DeleteInvoke(auth) /\ UNCHANGED <<mockVars, snap, authVars, otherVars>>
    \/ \E fails \in BOOLEAN : DeleteQuery(fails) /\ UNCHANGED <<mockVars, snap, authVars, otherVars>>
    \/ \E fails \in BOOLEAN : DeleteCommit(fails) /\ UNCHANGED <<mockVars, snap, authVars, otherVars>>
    \/ \E fails \in BOOLEAN : DeleteGetFiles(fails) /\ UNCHANGED <<mockVars, snap, authVars, otherVars>>
    \/ \E failed \in SUBSET ObjectChoices :
           DeleteFiles(failed) /\ UNCHANGED <<mockVars, snap, authVars, otherVars>>
    \/ \E fails \in BOOLEAN : DeleteAuthUser(fails) /\ UNCHANGED <<mockVars, snap, authVars, otherVars>>

SpecDelete == InitDelete /\ [][NextDelete]_vars

\* the profile documents under the security rules, savePushToken and signUp
NextUsers ==
    \/ \E auth \in AuthArgs, userId \in UserIds,
          data \in [role : RoleArgs, pushToken : TokenArgs] :
           UserDocWrite(auth, userId, data)
           /\ UNCHANGED <<cfVars, mockVars, snap, authVars, otherVars>>
    \/ \E auth \in AuthArgs, token \in TokenArgs, backendFails \in BOOLEAN :
           SavePushToken(auth, token, backendFails)
           /\ UNCHANGED <<cfVars, mockVars, snap, authVars, otherVars>>
    \/ \E auth \in AuthArgs, userId \in UserIds :
           UserDocDelete(auth, userId)
           /\ UNCHANGED <<cfVars, mockVars, snap, authVars, otherVars>>
    \/ SignUp /\ UNCHANGED <<cfVars, mockVars, snap, backendVars, otherVars>>
    \/ \E email \in Credentials, passwordOk \in BOOLEAN :
           SignIn(email, passwordOk) /\ UNCHANGED <<cfVars, mockVars, snap, backendVars, otherVars>>
    \/ SignOutUser /\ UNCHANGED <<cfVars, mockVars, snap, backendVars, otherVars>>

SpecUsers == InitSpecCF /\ [][NextUsers]_vars

\* NewReportScreen.tsx 117-126: the screen passes no status and no vote count,
\* and the uid of the user both as a field of the data and as the second argument
SubmittedDataArgs ==
    {d \in ReportDataArgs : d.status = "new" /\ d.voteCount = 0}

\* reports.ts 76: one draw of Math.random() * 10; the lists do not read the score
ListRandomTenths == {50}

\* creating reports from the form and directly
NextSubmit ==
    \/ \E email \in Credentials, passwordOk \in BOOLEAN :
           SignIn(email, passwordOk)
           /\ UNCHANGED <<cfVars, mockVars, snap, backendVars, otherVars>>
    \/ SignOutUser /\ UNCHANGED <<cfVars, mockVars, snap, backendVars, otherVars>>
    \/ \E description \in DescriptionArgs, location \in LocationArgs,
          isPublic \in BOOLEAN, random \in ListRandomTenths :
           HandleSubmit(description, location, isPublic, random)
           /\ UNCHANGED <<cfVars, snap, authVars, backendVars, otherVars>>
    \/ \E reportData \in UncheckedDataArgs, random \in ListRandomTenths :
           MockCreateReport(reportData, reportData.userId, random)
           /\ UNCHANGED <<cfVars, snap, authVars, backendVars, otherVars>>
    \/ Tick /\ UNCHANGED <<mockVars, snap, authVars, backendVars, otherVars>>

SpecSubmit == InitSpecCF /\ [][NextSubmit]_vars

\* README.md 483-520: one await of deleteAccountData resolves or rejects
SerialDeleteStep ==
    /\ \/ \E fails \in BOOLEAN : DeleteQuery(fails)
       \/ \E fails \in BOOLEAN : DeleteCommit(fails)
       \/ \E fails \in BOOLEAN : DeleteGetFiles(fails)
       \/ \E failed \in SUBSET ObjectChoices : DeleteFiles(failed)
       \/ \E fails \in BOOLEAN : DeleteAuthUser(fails)
    /\ LET ended == del'.pc = "done" /\ del'.result = "internal"
       IN probe' = [probe EXCEPT
              !.failedAt = IF ended THEN del.pc ELSE @,
              !.thrown = IF ended THEN BackendError ELSE @,
              !.surfaced = IF ended THEN DeleteCatch(BackendError) ELSE @]

\* voteReport and deleteAccountData, one call at a time, over a backend whose
\* calls may reject
restOfSerial == <<mockVars, snap, authVars, authListeners, round, page>>

NextSerial ==
    \/ \E c \in CallIds, auth \in AuthArgs, reportId \in ReportIdArgs :
           SerialVoteInvoke(c, auth, reportId)
           /\ UNCHANGED <<restOfSerial, backendVars>>
    \/ \E c \in CallIds : SerialVoteStep(c) /\ UNCHANGED <<restOfSerial, backendVars>>
    \/ \E c \in CallIds : VoteReportBackendFails(c) /\ UNCHANGED <<restOfSerial, backendVars>>
    \/ Tick /\ UNCHANGED <<restOfSerial, backendVars, probe>>

SpecSerial == InitSpecCF /\ [][NextSerial]_vars

\* one call of voteReport and calls of deleteAccountData, on a store where
\* test-user has just voted for report 1
InitErrors ==
    /\ now = 0
    /\ reports = [id \in StoredReportIds |->
                     IF id = "1" THEN VotedReport(id, <<"test-user">>)
                                 ELSE VotedReport(id, <<>>)]
    /\ userVotes = [u \in {"test-user"} |-> 0]
    /\ calls = <<IdleCall>>
    /\ InitMock /\ snap = NoSnap /\ InitAuth /\ InitOther /\ InitBackend

NextErrors ==
    \/ \E c \in CallIds, auth \in AuthArgs, reportId \in ReportIdArgs :
           SerialVoteInvoke(c, auth, reportId)
           /\ UNCHANGED <<restOfSerial, backendVars>>
    \/ \E c \in CallIds : SerialVoteStep(c) /\ UNCHANGED <<restOfSerial, backendVars>>
    \/ \E c \in CallIds : VoteReportBackendFails(c) /\ UNCHANGED <<restOfSerial, backendVars>>
    \/ \E auth \in AuthArgs : SerialDeleteInvoke(auth) /\ UNCHANGED restOfSerial
    \/ SerialDeleteStep /\ UNCHANGED restOfSerial

SpecErrors == InitErrors /\ [][NextErrors]_vars

\* creating reports, in the same millisecond or in different ones, and reading
\* them back by id
NextIds ==
    \/ \E reportData \in SubmittedDataArgs, random \in RandomTenths :
           MockCreateReport(reportData, reportData.userId, random)
           /\ UNCHANGED <<cfVars, snap, authVars, backendVars, otherVars>>
    \/ Tick /\ UNCHANGED <<mockVars, snap, authVars, backendVars, otherVars>>
    \/ \E reportId \in MockReportIdArgs :
           GetReport(reportId)
           /\ UNCHANGED <<cfVars, snap, authVars, backendVars, otherVars>>
    \/ SignUp /\ UNCHANGED <<cfVars, mockVars, snap, backendVars, otherVars>>

SpecIds == InitSpecCF /\ [][NextIds]_vars

\* the registry of auth listeners under sign-in, sign-up and sign-out
restOfListeners == <<cfVars, mockVars, snap, backendVars, probe, page>>

NextListeners ==
    \/ \E callback \in ListenerIds : OnAuthStateChange(callback) /\ UNCHANGED restOfListeners
    \/ \E callback \in ListenerIds : UnsubscribeListener(callback) /\ UNCHANGED restOfListeners
    \/ \E behaviour \in BehaviourArgs : SignUpNotifying(behaviour) /\ UNCHANGED restOfListeners
    \/ \E email \in Credentials, passwordOk \in BOOLEAN, behaviour \in BehaviourArgs :
           SignInNotifying(email, passwordOk, behaviour) /\ UNCHANGED restOfListeners
    \/ \E behaviour \in BehaviourArgs : SignOutNotifying(behaviour) /\ UNCHANGED restOfListeners

SpecListeners == InitSpecCF /\ [][NextListeners]_vars

\* the predictor page under submissions, answers and saves
restOfPage == <<cfVars, mockVars, snap, authVars, backendVars, probe, authListeners, round>>

NextPage ==
    \/ Submit /\ UNCHANGED restOfPage
    \/ \E outcome \in PredictOutcomes : PredictSettles(outcome) /\ UNCHANGED restOfPage
    \/ SavePlayerInfo /\ UNCHANGED restOfPage
    \/ \E success \in BOOLEAN : AddPlayerSettles(success) /\ UNCHANGED restOfPage

SpecPage == InitSpecCF /\ [][NextPage]_vars

\* the lists of the mock service over a store that grows
NextList ==
    \/ \E reportData \in SubmittedDataArgs, random \in ListRandomTenths :
           MockCreateReport(reportData, reportData.userId, random)
           /\ UNCHANGED <<cfVars, snap, authVars, backendVars, otherVars>>
    \/ Tick /\ UNCHANGED <<mockVars, snap, authVars, backendVars, otherVars>>
    \/ GetPublicReports /\ UNCHANGED <<cfVars, snap, authVars, backendVars, otherVars>>
    \/ \E userId \in MockUserIdArgs :
           GetUserReports(userId)
           /\ UNCHANGED <<cfVars, snap, authVars, backendVars, otherVars>>

SpecList == InitSpecCF /\ [][NextList]_vars

\* the reads of the mock service by whoever is signed in
NextRead ==
    \/ SignUp /\ UNCHANGED <<cfVars, mockVars, snap, backendVars, otherVars>>
    \/ \E email \in Credentials, passwordOk \in BOOLEAN :
           SignIn(email, passwordOk)
           /\ UNCHANGED <<cfVars, mockVars, snap, backendVars, otherVars>>
    \/ SignOutUser /\ UNCHANGED <<cfVars, mockVars, snap, backendVars, otherVars>>
    \/ GetPublicReports /\ UNCHANGED <<cfVars, snap, authVars, backendVars, otherVars>>
    \/ \E userId \in MockUserIdArgs :
           GetUserReports(userId)
           /\ UNCHANGED <<cfVars, snap, authVars, backendVars, otherVars>>
    \/ \E reportId \in MockReportIdArgs :
           GetReport(reportId)
           /\ UNCHANGED <<cfVars, snap, authVars, backendVars, otherVars>>

SpecRead == InitSpecCF /\ [][NextRead]_vars

Next ==
    \/ NextCF \/ NextMock \/ NextScore
    \/ NextCreate \/ NextStatus \/ NextNotify \/ NextDelete \/ NextUsers
    \/ NextList \/ NextRead \/ NextSubmit \/ NextSerial \/ NextErrors \/ NextIds \/ NextListeners \/ NextPage

Spec == Init /\ [][Next]_vars

----------------------------------------------------------------------------
(* Properties of voting *)

SamePair(c, d) ==
    calls[c].auth = calls[d].auth /\ calls[c].reportId = calls[d].reportId

\* the call has applied its reportRef.update (the vote-count increment)
Incremented(c) ==
    \/ calls[c].pc \in {"setUserVotes", "updateScore"}
    \/ calls[c].pc = "done" /\ calls[c].result = "ok"

\* the set of elements of an array
Elems(arr) == {arr[i] : i \in DOMAIN arr}

AbsDiff(a, b) == IF a >= b THEN a - b ELSE b - a

\* the error kind of the spec to which an error of the mock service corresponds
MockKind(error) ==
    IF error = "none" THEN "ok"
    ELSE IF error = "You have already voted on this report" THEN "already-exists"
    ELSE IF error = "Only admins can update report status" THEN "permission-denied"
    ELSE "internal"

MockVoted == mockResult.op = "voteReport"

\* C1: once a vote (r, u) has succeeded, a later vote (r, u) is rejected with
\* already-exists right after the report is read and never reaches the increment.
C1_RepeatedVoteRejected ==
    \A c \in CallIds :
        calls[c].priorOk =>
            \/ calls[c].pc = "getReport"
            \/ calls[c].pc = "done" /\ calls[c].result = "already-exists"

\* the stronger reading: such a vote never reaches the increment
C1_RepeatedVoteNoIncrement ==
    \A c \in CallIds : calls[c].priorOk => ~Incremented(c)

\* C2: of two overlapping calls for the same (reportId, userId) at most one
\* increments the vote count, and so at most one succeeds.
C2_ConcurrentSamePairOnce ==
    \A c, d \in CallIds :
        (c # d /\ SamePair(c, d) /\ calls[c].concPair /\ calls[d].concPair) =>
            /\ ~(Incremented(c) /\ Incremented(d))
            /\ ~(c \in OkCalls /\ d \in OkCalls)

\* C3: every stored report's vote count is the number of distinct recorded voters.
C3_CountIsVoters ==
    \A id \in DOMAIN reports :
        reports[id].upvotes = Cardinality(Elems(reports[id].voters))

\* C4: a successful vote records the voter, raises the report's vote count by
\* exactly one and sets the urgency score to the score of the new count.
C4_VoteEffect ==
    [][ (MockVoted' /\ mockResult'.error = "none") =>
            LET r == mockResult'.reportId
                i == FindReport(r)
            IN /\ r \in DOMAIN mockVotes'
               /\ mockResult'.userId \in mockVotes'[r]
               /\ i # 0 =>
                     /\ mockReports'[i].voteCount = mockReports[i].voteCount + 1
                     /\ ScoreEq(mockReports'[i].urgencyScore,
                                computeUrgencyScore(mockReports'[i].voteCount)) ]_vars

\* C5: a vote on a report that is not public fails with permission-denied and
\* records no vote.
C5_PrivateVoteDenied ==
    \A i \in DOMAIN mockReports :
        (MockVoted /\ mockResult.reportId = mockReports[i].id /\ ~mockReports[i].isPublic) =>
            /\ MockKind(mockResult.error) = "permission-denied"
            /\ mockReports[i].id \in DOMAIN mockVotes =>
                   mockResult.userId \notin mockVotes[mockReports[i].id]

\* the Cloud Function, for comparison: a vote on a private report ends in
\* permission-denied, a vote on a missing report in not-found, and neither
\* reaches a write
CloudFunctionRejects ==
    \A c \in CallIds :
        (calls[c].pc \notin {"idle", "getReport"} /\ calls[c].auth # NoAuth
         /\ calls[c].reportId # NoReportId) =>
            /\ calls[c].reportId \notin DOMAIN reports =>
                   calls[c].pc = "done" /\ calls[c].result = "not-found"
            /\ (calls[c].reportId \in DOMAIN reports
                /\ ~reports[calls[c].reportId].isPublic) =>
                   calls[c].pc = "done" /\ calls[c].result = "permission-denied"

\* C6: a vote on an id that is not in the report store fails with not-found and
\* creates no voter entry for that id.
C6_UnknownReportNotFound ==
    (MockVoted /\ FindReport(mockResult.reportId) = 0) =>
        /\ MockKind(mockResult.error) = "not-found"
        /\ mockResult.reportId \notin DOMAIN mockVotes

\* the claim's premise: c is a finished vote of a user on a public report the user
\* has not voted on, made after an earlier vote of that user succeeded, and no
\* other call of that user overlapped it
LaterVote(c) ==
    /\ calls[c].pc = "done"
    /\ calls[c].auth \in UserIds
    /\ calls[c].reportId \in DOMAIN reports
    /\ reports[calls[c].reportId].isPublic
    /\ ~calls[c].priorOk
    /\ ~calls[c].concUser
    /\ \E d \in OkCalls : d < c /\ calls[d].auth = calls[c].auth

\* C7: a later vote of a user, on another public report, is rejected with
\* resource-exhausted when the clock reads less than 60 s after the user's last
\* successful vote, and succeeds when it reads 60 s or more.  The rejection
\* inside the window holds whatever else is in flight.
C7_RateLimitWindow ==
    \A c \in CallIds :
        /\ LaterVote(c) =>
               /\ calls[c].sincePrev # NoTime
               /\ calls[c].result =
                      IF calls[c].sincePrev < RateLimitMs THEN "resource-exhausted"
                                                         ELSE "ok"
        /\ (calls[c].sincePrev # NoTime /\ calls[c].sincePrev < RateLimitMs) =>
               calls[c].pc = "done" /\ calls[c].result = "resource-exhausted"

\* a later vote made exactly 60 s after the previous one has succeeded
C7_Witness ==
    \E c \in CallIds :
        LaterVote(c) /\ calls[c].sincePrev = RateLimitMs /\ calls[c].result = "ok"

\* a later vote made 30 s after the previous one has been rejected
C7_WitnessLimited ==
    \E c \in CallIds :
        /\ LaterVote(c)
        /\ calls[c].sincePrev = TickMs
        /\ calls[c].result = "resource-exhausted"

\* C8: no user has two successful votes whose times are less than 60 s apart.
C8_VotesSpaced ==
    \A c, d \in OkCalls :
        (c # d /\ calls[c].auth = calls[d].auth) =>
            AbsDiff(calls[c].wrote, calls[d].wrote) >= RateLimitMs

\* C9: when no vote call is in progress, every report's stored urgency score is
\* the score of its stored vote count.
C9_ScoreMatchesCount ==
    (\A c \in CallIds : ~InProgress(c)) =>
        \A id \in DOMAIN reports :
            ScoreEq(reports[id].aiScore, computeUrgencyScore(reports[id].upvotes))

\* C10: the score is non-decreasing in the vote count, lies in [50, 100], is 50
\* at 0 and 70 at 9, and is exactly 100 from (v + 1)^2 >= 100000 on (v >= 316)
\* and strictly below 100 before.
C10_ScoreShape ==
    snap.aiScore # NoScore =>
        LET v == snap.upvotes
            s == snap.aiScore
        IN /\ ScoreLeq(Lit(50), s) /\ ScoreLeq(s, Lit(100))
           /\ v = 0 => ScoreEq(s, Lit(50))
           /\ v = 9 => ScoreEq(s, Lit(70))
           /\ ((v + 1) * (v + 1) >= 100000) <=> (v >= 316)
           /\ v >= 316 => ScoreEq(s, Lit(100))
           /\ v < 316 => ScoreLt(s, Lit(100))
           /\ \A w \in 0..v : ScoreLeq(computeUrgencyScore(w), s)

\* the score of 316 votes has been computed and is the cap
C10_Witness ==
    /\ snap.upvotes = 316
    /\ snap.aiScore # NoScore
    /\ ScoreEq(snap.aiScore, Lit(ScoreCap))

----------------------------------------------------------------------------
(* Properties of report creation and status updates *)

MockCreated == mockResult.op = "createReport"

\* the report that createReport has just pushed
LastReport == mockReports[Len(mockReports)]

\* C11: a report that has just been created has status new, vote count 0 and
\* urgency score 50, whatever the data it was created from.
C11_CreatedReportDefaults ==
    MockCreated =>
        /\ LastReport.id = mockResult.reportId
        /\ LastReport.status = "new"
        /\ LastReport.voteCount = 0
        /\ ScoreEq(LastReport.urgencyScore, Lit(BaseScore))

\* what does hold of the mock: status new and vote count 0, whatever the data
CreatedStatusAndCount ==
    MockCreated => LastReport.status = "new" /\ LastReport.voteCount = 0

StatusUpdated == mockResult.op \in {"updateReportStatus", "handleStatusUpdate"}

\* the caller of the last status update is an admin
CallerIsAdmin ==
    mockResult.userId # NoUser /\ mockUsers[mockResult.userId].role = "admin"

\* C12: a status update of a stored report by a caller who is neither its author
\* nor an admin fails with permission-denied and leaves the status as it was; one
\* by its author or by an admin succeeds and sets the status.
C12_StatusUpdateAuthorised ==
    (StatusUpdated /\ FindReport(mockResult.reportId) # 0) =>
        LET report == mockReports[FindReport(mockResult.reportId)]
        IN IF mockResult.userId = report.userId \/ CallerIsAdmin
              THEN /\ mockResult.error = "none"
                   /\ report.status = mockResult.status
              ELSE /\ MockKind(mockResult.error) = "permission-denied"
                   /\ report.status = mockResult.before

\* what does hold of the mock: a status update by an admin sets the status, and
\* one the screen refused left it as it was
AdminStatusUpdateSucceeds ==
    (StatusUpdated /\ FindReport(mockResult.reportId) # 0) =>
        LET report == mockReports[FindReport(mockResult.reportId)]
        IN /\ CallerIsAdmin =>
                 mockResult.error = "none" /\ report.status = mockResult.status
           /\ mockResult.error # "none" => report.status = mockResult.before

\* C26: the status of every report is one of new, in_progress and resolved, and
\* updateReportStatus moves a stored report from whatever status it has to the
\* status asked for, resolved included: no status is terminal.
C26_StatusNeverTerminal ==
    /\ \A i \in DOMAIN mockReports : mockReports[i].status \in StatusArgs
    /\ (mockResult.op = "updateReportStatus" /\ FindReport(mockResult.reportId) # 0) =>
           /\ mockResult.error = "none"
           /\ mockResult.before \in StatusArgs
           /\ mockReports[FindReport(mockResult.reportId)].status = mockResult.status

\* a resolved report has been moved back to new
C26_Witness ==
    /\ mockResult.op = "updateReportStatus"
    /\ FindReport(mockResult.reportId) # 0
    /\ mockResult.before = "resolved"
    /\ mockResult.status = "new"
    /\ mockReports[FindReport(mockResult.reportId)].status = "new"

----------------------------------------------------------------------------
(* Properties of the notification fan-out *)

\* every update event so far has been handled
AllHandled == events = <<>> /\ notify.pc = "idle"

\* C13: of the update events handled so far, each one whose status before and
\* after differ has started one fan-out, and the others (the two writes of a
\* vote, a status set to its current value) have started none.
C13_FanOutPerTransition ==
    /\ notify.fanOuts = notify.transitions
    /\ notify.transitions <= notify.statusWrites
    /\ notify.pc # "idle" => notify.fanOuts > 0

\* a vote has made its two writes, a client has changed a status, all three
\* events are handled and there was one fan-out
C13_Witness ==
    /\ AllHandled
    /\ \E c \in CallIds : calls[c].pc = "done" /\ calls[c].result = "ok"
    /\ notify.statusWrites = 1
    /\ notify.transitions = 1
    /\ notify.fanOuts = 1

\* a client has set a status to its current value, the event is handled and
\* there was no fan-out
C13_WitnessSameStatus ==
    /\ AllHandled
    /\ notify.statusWrites = 1
    /\ notify.transitions = 0
    /\ notify.fanOuts = 0

\* the users of the claim's recipient set that have a stored push token
WithToken(recipients) ==
    {u \in recipients : u \in DOMAIN users /\ users[u].pushToken # NoToken}

\* C14: a finished fan-out has looked up exactly the author and the recorded
\* voters of the report, each once; when no lookup failed, the tokens it sent to
\* are exactly the stored tokens of those users, one per user, and users without
\* a record or without a token were passed over without an error.
C14_Recipients ==
    /\ notify.pc # "raised"
    /\ notify.pc = "done" =>
          /\ Elems(notify.looked) = notify.considered
          /\ Len(notify.looked) = Cardinality(notify.considered)
          /\ notify.failed = {} =>
                /\ Elems(notify.sent) =
                      {users[u].pushToken : u \in WithToken(notify.considered)}
                /\ Len(notify.sent) = Cardinality(WithToken(notify.considered))

\* a fan-out for the author and one other voter has finished; one of them has a
\* token and was sent to, the other has no token or no record
C14_Witness ==
    /\ notify.pc = "done"
    /\ notify.failed = {}
    /\ Cardinality(notify.considered) = 2
    /\ Len(notify.sent) = 1
    /\ \E u \in notify.considered : u \notin DOMAIN users

\* a fan-out for a report whose author voted on it has finished: the author was
\* looked up once
C14_WitnessAuthorVoted ==
    /\ notify.pc = "done"
    /\ notify.reportId \in DOMAIN reports
    /\ Includes(reports[notify.reportId].voters, reports[notify.reportId].authorId)
    /\ notify.looked = <<reports[notify.reportId].authorId>>
    /\ Len(notify.sent) = 1

\* C15: whichever lookups failed, a finished fan-out has sent to the stored token
\* of every other recipient that has one; a token the gateway failed on takes no
\* other token out of the message; and the handler never ends by raising.
C15_FailureIsolated ==
    /\ notify.pc # "raised"
    /\ notify.pc = "done" =>
          /\ \A u \in WithToken(notify.considered \ notify.failed) :
                Includes(notify.sent, users[u].pushToken)
          /\ notify.delivered \subseteq Elems(notify.sent)
          /\ notify.sendFailed => notify.delivered = {}

\* a fan-out has finished in which the lookup of one recipient failed and the
\* token of another was sent to
C15_Witness ==
    /\ notify.pc = "done"
    /\ notify.failed # {}
    /\ \E u \in WithToken(notify.considered \ notify.failed) :
          users[u].pushToken \in notify.delivered

\* a fan-out has finished in which the gateway reached one of two tokens
C15_WitnessDelivery ==
    /\ notify.pc = "done"
    /\ Len(notify.sent) = 2
    /\ Cardinality(notify.delivered) = 1

----------------------------------------------------------------------------
(* Properties of account deletion *)

ReportsBy(userId) == {id \in DOMAIN reports : reports[id].authorId = userId}

DeleteReturned(result) == del.pc = "done" /\ del.result = result

\* C16: an identity is gone only when the reports, the profile document, the
\* rate-limit document and the stored photos of that user are gone; and a call
\* that returns an error leaves the caller's identity in place.
C16_IdentityDeletedLast ==
    /\ \A u \in UserIds :
          u \notin identities =>
             /\ ReportsBy(u) = {}
             /\ u \notin DOMAIN users
             /\ u \notin DOMAIN userVotes
             /\ PhotosOf(u) = {}
    /\ DeleteReturned("internal") => del.auth \in identities

\* what does hold: the identity goes after the batch has committed and the
\* objects under reports/{userId}/ are deleted, and an error leaves it in place
IdentityDeletedAfterSteps ==
    /\ \A u \in UserIds :
          u \notin identities =>
             /\ ReportsBy(u) = {}
             /\ u \notin DOMAIN users
             /\ u \notin DOMAIN userVotes
             /\ FilesUnderPrefix(u) = {}
    /\ DeleteReturned("internal") => del.auth \in identities
    /\ del.pc = "deleteUser" => del.committed /\ del.filesDone

\* C17: after deleteAccountData has returned without error, no report of the
\* caller is stored, no photo stored for the caller's reports is left, and the
\* caller's identity is gone.
C17_SuccessfulDeletion ==
    DeleteReturned("ok") =>
        /\ ReportsBy(del.auth) = {}
        /\ PhotosOf(del.auth) = {}
        /\ del.auth \notin identities

\* what does hold: the reports and the identity are gone
DeletionRemovesReportsAndIdentity ==
    DeleteReturned("ok") =>
        /\ ReportsBy(del.auth) = {}
        /\ del.auth \notin identities

\* the vote count, the voter list and the urgency score of a report
VoteData(doc) == <<doc.upvotes, doc.voters, doc.aiScore>>

\* C18: no step of deleteAccountData touches the vote count, the voters or the
\* urgency score of a report the caller did not write, and such a report keeps
\* vote count = number of voters.
C18_OtherReportsUntouched ==
    [][ \A id \in DOMAIN reports :
           reports[id].authorId # del'.auth =>
              /\ id \in DOMAIN reports'
              /\ VoteData(reports'[id]) = VoteData(reports[id])
              /\ reports'[id].upvotes = Cardinality(Elems(reports'[id].voters)) ]_vars

\* a deletion has returned without error and a report of another author still
\* counts the deleted user among its voters
C18_Witness ==
    /\ DeleteReturned("ok")
    /\ \E id \in DOMAIN reports :
          /\ reports[id].authorId # del.auth
          /\ Includes(reports[id].voters, del.auth)
          /\ reports[id].upvotes = Len(reports[id].voters)

\* C19: a call fails only when a backend call of that very call failed, never
\* because of what an earlier call had already deleted; and a call that returns
\* without error leaves what one clean deletion leaves: no report, profile
\* document, rate-limit document, object under reports/{userId}/ or identity of
\* the caller.
C19_RetryCompletes ==
    /\ DeleteReturned("internal") => del.injected
    /\ DeleteReturned("ok") =>
          /\ ReportsBy(del.auth) = {}
          /\ del.auth \notin DOMAIN users
          /\ del.auth \notin DOMAIN userVotes
          /\ FilesUnderPrefix(del.auth) = {}
          /\ del.auth \notin identities

\* a call that followed a failure after the batch had committed has returned
\* without error
C19_Witness ==
    /\ DeleteReturned("ok")
    /\ del.retry
    /\ del.attempts = 2

----------------------------------------------------------------------------
(* Properties of roles *)

\* C20: nothing a user may do changes a role: the profile document of an
\* account created with role user keeps role user, and every profile signUp
\* creates has role user.
C20_RoleUnchanged ==
    /\ \A u \in DOMAIN users :
          SeededUsers[u].role = "user" => users[u].role = "user"
    /\ \A u \in DOMAIN mockUsers : u \notin UserIds => mockUsers[u].role = "user"

\* what does hold: signUp creates role user, and no profile of the mock changes
SignUpCreatesUser ==
    /\ \A u \in DOMAIN mockUsers : u \notin UserIds => mockUsers[u].role = "user"
    /\ \A u \in UserIds : mockUsers[u] = SeededUsers[u]

----------------------------------------------------------------------------
(* Properties of reading reports *)

MockRead == mockResult.op \in {"getPublicReports", "getUserReports", "getReport"}

\* the caller of the last read is signed in as an admin
ReaderIsAdmin ==
    mockResult.caller # NoUser /\ mockUsers[mockResult.caller].role = "admin"

\* C21: a read hands a report that is not public only to its author or to an
\* admin, and getReport hands a public report to every caller.
C21_PrivateReadRestricted ==
    MockRead =>
        /\ \A i \in DOMAIN mockResult.result :
              ~mockResult.result[i].isPublic =>
                 \/ mockResult.caller = mockResult.result[i].userId
                 \/ ReaderIsAdmin
        /\ (/\ mockResult.op = "getReport"
            /\ FindReport(mockResult.reportId) # 0
            /\ mockReports[FindReport(mockResult.reportId)].isPublic) =>
               mockResult.result = <<mockReports[FindReport(mockResult.reportId)]>>

\* what does hold: getPublicReports returns public reports only, and getReport
\* returns every stored report, public or not, to every caller
PublicListIsPublic ==
    /\ mockResult.op = "getPublicReports" =>
          \A i \in DOMAIN mockResult.result : mockResult.result[i].isPublic
    /\ (mockResult.op = "getReport" /\ FindReport(mockResult.reportId) # 0) =>
          mockResult.result = <<mockReports[FindReport(mockResult.reportId)]>>

\* the reports of an array, with how often each occurs
Occurrences(arr, r) == Cardinality({i \in DOMAIN arr : arr[i] = r})

SameReports(arr, brr) ==
    \A r \in Elems(arr) \cup Elems(brr) : Occurrences(arr, r) = Occurrences(brr, r)

\* the step is a call of one of the two lists
ListedNow ==
    /\ mockResult' # mockResult
    /\ mockResult'.op \in {"getPublicReports", "getUserReports"}

CreateCalled ==
    /\ mockResult' # mockResult
    /\ mockResult'.op = "createReport"

\* C23: createReport fails and adds no report when the description is empty or
\* the location is missing, and succeeds and adds exactly one report otherwise.
C23_CreateValidates ==
    [][ CreateCalled =>
          IF mockResult'.description = "" \/ mockResult'.location = NoLocation
             THEN mockResult'.error # "none" /\ mockReports' = mockReports
             ELSE /\ mockResult'.error = "none"
                  /\ Len(mockReports') = Len(mockReports) + 1
                  /\ SubSeq(mockReports', 1, Len(mockReports)) = mockReports ]_vars

\* what holds: the form passes to createReport only a description that is not
\* empty after trimming, a location, and the uid of a signed-in user
FormValidates ==
    [][ /\ mockResult' # mockResult
        /\ mockResult'.op = "handleSubmit"
        => /\ mockResult'.error # "none"
           /\ mockReports' = mockReports
           /\ \/ Trim(mockResult'.description) = ""
              \/ mockResult'.location = NoLocation
              \/ currentUser = NoUser ]_vars

(***************************************************************************)
(* Properties of the errors of voteReport and deleteAccountData            *)
(***************************************************************************)

\* the latest call of voteReport has returned or thrown
VoteEnded ==
    /\ probe.fn = "voteReport"
    /\ calls[probe.call].pc = "done"

VoteFailed == VoteEnded /\ calls[probe.call].result # "ok"

\* the caller's rate-limit timestamp in a userVotes collection
LastVoteTimeIn(votes, uid) == IF uid \in DOMAIN votes THEN votes[uid] ELSE NoTime

\* the report of the latest call and the caller's timestamp are as the call found them
VoteLeftNoTrace ==
    LET id == calls[probe.call].reportId
        uid == calls[probe.call].auth
    IN /\ id \in DOMAIN probe.reports =>
              /\ id \in DOMAIN reports
              /\ reports[id].upvotes = probe.reports[id].upvotes
              /\ reports[id].voters = probe.reports[id].voters
              /\ reports[id].aiScore = probe.reports[id].aiScore
       /\ LastVoteTimeIn(userVotes, uid) = LastVoteTimeIn(probe.userVotes, uid)

\* C24: when a call of voteReport has ended with an error of any kind, the report's
\* vote count, voters and urgency score and the caller's rate-limit timestamp are
\* what they were before the call.
C24_FailedVoteChangesNothing == VoteFailed => VoteLeftNoTrace

\* what holds: a call that one of the checks rejected has written nothing
RejectedVoteChangesNothing ==
    VoteFailed /\ probe.failedAt = "none" => VoteLeftNoTrace

\* a vote has been rejected for the rate limit while the timestamp was in force
RejectedVoteWitness ==
    /\ VoteFailed
    /\ calls[probe.call].result = "resource-exhausted"

\* C25: in voteReport and deleteAccountData an error thrown with a defined kind
\* reaches the caller with that kind, and the rejection of a backend call reaches
\* the caller as internal with the fixed message of the function, which has
\* nothing of the rejection in it.
C25_ErrorKindsSurfaced ==
    /\ probe.thrown # NoError =>
          IF probe.thrown.https
             THEN probe.surfaced = probe.thrown
             ELSE /\ probe.surfaced.https
                  /\ probe.surfaced.kind = "internal"
                  /\ probe.surfaced.message # probe.thrown.message
                  /\ probe.surfaced.message =
                        IF probe.fn = "voteReport" THEN "Failed to process vote"
                                                   ELSE "Failed to delete account data"
    /\ VoteFailed => calls[probe.call].result = probe.surfaced.kind
    /\ probe.fn = "deleteAccountData" /\ del.pc = "done" /\ probe.thrown # NoError =>
          del.result = probe.surfaced.kind

\* a backend call of deleteAccountData has rejected after a vote was refused with
\* a defined kind
C25_Witness ==
    /\ probe.fn = "deleteAccountData"
    /\ del.pc = "done"
    /\ probe.thrown = BackendError
    /\ calls[1].result = "resource-exhausted"

\* a backend call of voteReport has rejected between the two writes
C25_WitnessVote ==
    /\ VoteFailed
    /\ probe.thrown = BackendError
    /\ probe.failedAt = "setUserVotes"

\* the first check of README.md 312-359 that the call fails, on the store as the
\* call found it and the clock as the rate-limit check read it
FirstFailure ==
    LET id == calls[probe.call].reportId
        uid == calls[probe.call].auth
        last == LastVoteTimeIn(probe.userVotes, uid)
    IN IF uid = NoAuth THEN "unauthenticated"
       ELSE IF id = NoReportId THEN "invalid-argument"
       ELSE IF id \notin DOMAIN probe.reports THEN "not-found"
       ELSE IF ~probe.reports[id].isPublic THEN "permission-denied"
       ELSE IF \E i \in DOMAIN probe.reports[id].voters :
                   probe.reports[id].voters[i] = uid
          THEN "already-exists"
       ELSE IF last # NoTime /\ probe.checkedAt - last < RateLimitMs
          THEN "resource-exhausted"
       ELSE "ok"

\* C27: voteReport checks in the order unauthenticated, missing report id, not
\* found, not public, already voted, rate limited, and the first check that
\* fails decides the error; so a repeated vote within the cooldown is refused as
\* already voted and a vote on a private report within the cooldown as denied.
C27_ChecksInOrder ==
    VoteEnded /\ probe.failedAt = "none" => calls[probe.call].result = FirstFailure

\* the caller is within the cooldown of an earlier vote
InCooldown ==
    LET last == LastVoteTimeIn(probe.userVotes, calls[probe.call].auth)
    IN last # NoTime /\ now - last < RateLimitMs

\* a vote has been repeated within the cooldown and refused as already voted
C27_Witness ==
    VoteEnded /\ InCooldown /\ calls[probe.call].result = "already-exists"

\* a vote on a private report within the cooldown has been refused as denied
C27_WitnessPrivate ==
    VoteEnded /\ InCooldown /\ calls[probe.call].result = "permission-denied"

(***************************************************************************)
(* Properties of the ids of the mock service                               *)
(***************************************************************************)

\* C28: after any calls of createReport and signUp no two stored reports have the
\* same id, and getReport(id) returns the one report that has this id. (The
\* profiles are the values of a Map keyed by uid, which keeps one per uid.)
C28_IdsUnique ==
    /\ \A i, j \in DOMAIN mockReports : i # j => mockReports[i].id # mockReports[j].id
    /\ (mockResult.op = "getReport" /\ mockResult.error = "none") =>
           \A i \in DOMAIN mockReports :
               mockReports[i].id = mockResult.reportId =>
                   mockReports[i] = mockResult.result[1]

\* what holds: reports created in different milliseconds have different ids
IdsUniqueAcrossMilliseconds ==
    \A i, j \in DOMAIN mockReports :
        mockReports[i].createdAt # mockReports[j].createdAt =>
            mockReports[i].id # mockReports[j].id

\* two reports have been created in different milliseconds
IdsAcrossMillisecondsWitness ==
    \E i, j \in DOMAIN mockReports :
        /\ mockReports[i].createdAt >= 0
        /\ mockReports[j].createdAt > mockReports[i].createdAt

(***************************************************************************)
(* Properties of the registry of auth listeners                            *)
(***************************************************************************)

\* how often a listener was invoked in the latest round
Invocations(listener) ==
    Cardinality({i \in DOMAIN round.invoked : round.invoked[i] = listener})

AuthChanged == round.op \in {"signIn", "signUp", "signOutUser"}

\* the listeners subscribed when the round began
SubscribedAtStart == {round.atStart[i] : i \in DOMAIN round.atStart}

\* C29: onAuthStateChange invokes the callback once, at once, with the current
\* user; a successful signIn, signUp or signOutUser invokes every listener that is
\* subscribed, and whose unsubscribe has not run by its turn, exactly once with
\* the new current user; a failed signIn changes nothing and invokes no one; and
\* no callback is invoked after its unsubscribe ran, even when listeners
\* unsubscribe during the round.
C29_ListenersNotifiedOnce ==
    /\ round.op = "onAuthStateChange" =>
           /\ Len(round.invoked) = 1
           /\ round.user = currentUser
           /\ authListeners = Append(round.atStart, round.invoked[1])
    /\ AuthChanged =>
           /\ round.user = currentUser
           /\ \A l \in SubscribedAtStart \ round.gone : Invocations(l) = 1
           /\ \A l \in ListenerIds \ SubscribedAtStart : Invocations(l) = 0
    /\ round.op = "signIn failed" =>
           /\ round.invoked = <<>>
           /\ round.user = currentUser
           /\ authListeners = round.atStart
    /\ round.late = {}

\* what holds: no callback is invoked twice in a round or after its unsubscribe
\* ran, and a round in which no callback unsubscribes reaches every listener
ListenersNotifiedAtMostOnce ==
    /\ round.late = {}
    /\ \A l \in ListenerIds : Invocations(l) <= 1
    /\ AuthChanged =>
           /\ \A l \in ListenerIds \ SubscribedAtStart : Invocations(l) = 0
           /\ round.gone = {} => \A l \in SubscribedAtStart : Invocations(l) = 1

\* a round over three listeners in which none unsubscribes
ListenersRoundWitness ==
    AuthChanged /\ Len(round.atStart) = 3 /\ round.gone = {} /\ Len(round.invoked) = 3

(***************************************************************************)
(* Properties of the predictor page                                        *)
(***************************************************************************)

\* C30: the loading indicator is visible whenever a request for a prediction is
\* in flight, and once none is in flight the indicator is hidden and exactly one
\* of the result and the error message is visible.
C30_LoadingTracksRequests ==
    /\ page.inFlight > 0 => page.loading
    /\ (page.inFlight = 0 /\ page.submits > 0) =>
           /\ ~page.loading
           /\ page.result # page.error

\* what holds: with at most one request in flight at any time the indicator
\* follows it, and when no request is left the indicator is hidden and the
\* result or the error message is visible
PageSettles ==
    /\ (page.inFlight = 1 /\ page.submits = 1) => page.loading
    /\ (page.inFlight = 0 /\ page.submits > 0) =>
           ~page.loading /\ (page.result \/ page.error)

\* every submission has been answered
PageSettledWitness == page.inFlight = 0 /\ page.submits = MaxSubmits /\ page.result

====
